---- MODULE Spec2Model ----
(***************************************************************************)
(* A model of the tip-genius prediction workflow engine:                   *)
(*   - OddsAPI.process_api_data   (src/src/tip_genius/lib/api_data.py)     *)
(*   - TipGenius.predict_results, save_results, export_results and         *)
(*     execute_workflow           (src/src/tip_genius/tip_genius.py)       *)
(*                                                                         *)
(* Decimal odds are kept in tenths (15 stands for 1.5), so the order and   *)
(* the zero test of the floats are those of the integers.  Python strings  *)
(* are sequences of tokens, and f-string formatting is concatenation.      *)
(***************************************************************************)
EXTENDS Integers, Sequences, FiniteSets, TLC

VARIABLES
    probe,               \* the input and the result of a function applied on its own
    pc,                  \* the position of execute_workflow ("idle": no run)
    config,              \* the workflow configuration and the instance's options
    oracle,              \* the responses the oracle may give to a call
    sport_idx,           \* the place of the current sport in sports_list
    combo_idx,           \* the place of the current combination in the product
    api_result,          \* the payload fetched for the current sport
    data,                \* the table of the current combination
    row,                 \* i of predict_results, from 1
    attempt,             \* attempt of predict_results, from 0
    last_response,       \* last_response of predict_results
    prediction_data,     \* the Result Set: key -> sport -> list of matches
    key_order,           \* the keys of the Result Set in insertion order
    failed_combinations, \* the (sport, provider, error) triples of the run
    exported,            \* the calls made of the sink, in order
    odds_source,         \* the payloads the odds source may return
    finished,            \* the (sport, combination) whose results are in data
    fetched,             \* the calls of fetch_api_data of the run, in order
    processed,           \* the combinations the run entered, in order
    hist,                \* per row, the oracle's answers in this combination
    llm_config,          \* llm_config.yaml: provider -> temperature, rate limit
    durations,           \* the times a request to the oracle may take
    clock,               \* time.time(), from the start of the combination
    start_time,          \* start_time of predict_results (line 367)
    call_log,            \* the calls of get_prediction in this combination
    storage_manager,     \* self.storage_manager: "none" or "configured"
    export_result,       \* what the call of export_results came to
    oracle_calls,        \* the number of calls of get_prediction of the run
    warned,              \* the rows logged with "Using inconsistent prediction"
    tables,              \* the tables process_api_data returned, one per call
    ending               \* what the end of the run did: the calls of export_results,
                         \* the answer of is_cloud_environment, the summary

wfvars == <<config, oracle, sport_idx, combo_idx, api_result, data, row, attempt,
            last_response, prediction_data, key_order, failed_combinations,
            exported, odds_source, finished, fetched, processed, hist,
            llm_config, durations, clock, start_time, call_log,
            storage_manager, export_result, oracle_calls, warned, tables,
            ending>>

\* The clock and what is read off it
timevars == <<clock, start_time, call_log>>

\* What the environment of the oracle client holds
envvars == <<llm_config, durations>>

\* The storage manager of the instance, the outcome of export_results and
\* the end of the run
sinkvars == <<storage_manager, export_result, ending>>

vars == <<probe, pc, wfvars>>

-----------------------------------------------------------------------------
(* Helpers *)

Min(S) == CHOOSE x \in S : \A y \in S : x <= y

Range(s) == {s[k] : k \in 1..Len(s)}

-----------------------------------------------------------------------------
(* The raw payload of the odds source *)

\* The highest goal count of a prediction
MaxGoals == 2

\* None where a price is expected (the default of next(..., None))
NoPrice == -1

\* The label of the draw outcome (api_data.py line 313)
Draw == "Draw"

\* Bookmakers that can quote a match; X is not on the priority list
BookmakerKeys == {"A", "B", "X"}

\* self.bookmaker_priority, read from the configuration
bookmaker_priority == <<"A", "B">>

\* How many bookmaker entries one match of a payload carries at most
MaxBookmakers == 2

\* The price a bookmaker quotes for an outcome of a match when it quotes one
\* (tenths): the bookmakers differ, so the selected triple names its bookmaker
QuotedPrice(key, side) ==
    CASE key = "A" -> (CASE side = "home" -> 15 [] side = "away" -> 55 [] OTHER -> 45)
      [] key = "B" -> (CASE side = "home" -> 40 [] side = "away" -> 20 [] OTHER -> 35)
      [] OTHER     -> (CASE side = "home" -> 60 [] side = "away" -> 14 [] OTHER -> 50)

\* What a bookmaker's market says about one outcome: no entry, a price of
\* zero, or its price
OutcomeStates == {"absent", "zero", "priced"}

\* The outcomes list of markets[0] of a bookmaker entry: one entry per outcome
\* the bookmaker lists, names distinct
Outcomes(key, home_team, away_team, st) ==
    LET entry(side, name) ==
            IF st[side] = "absent" THEN <<>>
            ELSE <<[name |-> name,
                    price |-> IF st[side] = "zero" THEN 0
                              ELSE QuotedPrice(key, side)]>>
    IN  entry("home", home_team) \o entry("away", away_team)
            \o entry("draw", Draw)

\* The orders in which n bookmakers can appear in a match: each at most once
KeySeqs(n) ==
    {ks \in [1..n -> BookmakerKeys] :
        \A j, k \in 1..n : j # k => ks[j] # ks[k]}

OutcomeStateMaps == [{"home", "away", "draw"} -> OutcomeStates]

\* The bookmakers list of a match: bookmaker ks[k] with the outcomes sts[k]
Bookmakers(ks, sts, home_team, away_team) ==
    [k \in 1..Len(ks) |->
        [key |-> ks[k],
         markets |-> 1,
         outcomes |-> Outcomes(ks[k], home_team, away_team, sts[k])]]

\* One raw match record of the payload
RawMatch(home_team, away_team, sport_title, bookmakers) ==
    [home_team |-> home_team, away_team |-> away_team,
     sport_title |-> sport_title, bookmakers |-> bookmakers]

-----------------------------------------------------------------------------
(* OddsAPI.process_api_data *)

\* A variant that takes every price but None for a quote
TruthyNotNone(price) == price # NoPrice

\* Python truthiness of a price: None and 0 are false
Truthy(price) == price # NoPrice /\ price # 0

\* next((outcome["price"] for outcome in outcomes if outcome["name"] == name),
\*      None)
FirstPrice(outcomes, name) ==
    LET hits == {k \in 1..Len(outcomes) : outcomes[k].name = name}
    IN  IF hits = {} THEN NoPrice ELSE outcomes[Min(hits)].price

\* A variant that forgets the draw price
EntersDictNoDraw(bookmaker, home_team, away_team) ==
    /\ Truthy(FirstPrice(bookmaker.outcomes, home_team))
    /\ Truthy(FirstPrice(bookmaker.outcomes, away_team))

\* The condition under which a bookmaker enters bookmakers_dict (line 317)
EntersDict(bookmaker, home_team, away_team) ==
    /\ Truthy(FirstPrice(bookmaker.outcomes, home_team))
    /\ Truthy(FirstPrice(bookmaker.outcomes, away_team))
    /\ Truthy(FirstPrice(bookmaker.outcomes, Draw))

\* bookmakers_dict after the loop over the bookmakers of a match: a later
\* entry of the same key overwrites an earlier one
BookmakersDict(bookmakers, home_team, away_team) ==
    LET kept == {k \in 1..Len(bookmakers) :
                    EntersDict(bookmakers[k], home_team, away_team)}
        last(key) == CHOOSE k \in kept :
                        /\ bookmakers[k].key = key
                        /\ \A j \in kept : bookmakers[j].key = key => j <= k
    IN  [key \in {bookmakers[k].key : k \in kept} |->
            <<FirstPrice(bookmakers[last(key)].outcomes, home_team),
              FirstPrice(bookmakers[last(key)].outcomes, away_team),
              FirstPrice(bookmakers[last(key)].outcomes, Draw)>>]

\* A variant that falls back to any bookmaker of bookmakers_dict when none of
\* the priority list is in it
SelectOddsAnyBookmaker(dict) ==
    LET hits == {k \in 1..Len(bookmaker_priority) :
                    bookmaker_priority[k] \in DOMAIN dict}
    IN  IF hits # {} THEN dict[bookmaker_priority[Min(hits)]]
        ELSE IF DOMAIN dict = {} THEN <<0, 0, 0>>
        ELSE dict[CHOOSE key \in DOMAIN dict : TRUE]

\* The loop over self.bookmaker_priority: the first key bookmakers_dict holds
\* gives the odds, and (0.0, 0.0, 0.0) stays when it holds none
SelectOdds(dict) ==
    LET hits == {k \in 1..Len(bookmaker_priority) :
                    bookmaker_priority[k] \in DOMAIN dict}
    IN  IF hits = {} THEN <<0, 0, 0>>
        ELSE dict[bookmaker_priority[Min(hits)]]

\* The rendered odds summary, as the sequence of its parts
OddsSummary(match, odds, named_teams, additional_info) ==
    (IF named_teams
        THEN <<match.home_team, odds[1], match.away_team, odds[2], "draw", odds[3]>>
        ELSE <<"home", odds[1], "away", odds[2], "draw", odds[3]>>)
    \o (IF additional_info THEN <<match.sport_title>> ELSE <<>>)

\* One row of the table process_api_data returns (the kickoff-time columns,
\* which nothing downstream reads but the export's column list, are left out)
ProcessRow(match, named_teams, additional_info) ==
    LET odds == SelectOdds(BookmakersDict(match.bookmakers, match.home_team,
                                          match.away_team))
    IN  [home_team |-> match.home_team,
         away_team |-> match.away_team,
         sport_title |-> match.sport_title,
         odds_summary |-> OddsSummary(match, odds, named_teams, additional_info),
         odds_home |-> odds[1],
         odds_away |-> odds[2],
         odds_draw |-> odds[3],
         reasoning |-> "",
         prediction_home |-> 0,
         prediction_away |-> 0,
         outlook |-> "",
         validity |-> 0]

\* A variant that leaves out the matches without canonical odds
process_api_data_quoted(raw, named_teams, additional_info) ==
    LET Quoted(r) == r.odds_home # 0
    IN  SelectSeq([i \in 1..Len(raw) |->
                        ProcessRow(raw[i], named_teams, additional_info)],
                  Quoted)

\* A variant that finds the prices of a match under the names of its teams
\* only: without them the odds stay (0.0, 0.0, 0.0)
process_api_data_by_name(raw, named_teams, additional_info) ==
    [i \in 1..Len(raw) |->
        IF named_teams
           THEN ProcessRow(raw[i], named_teams, additional_info)
           ELSE [ProcessRow(raw[i], named_teams, additional_info) EXCEPT
                    !.odds_home = 0, !.odds_away = 0, !.odds_draw = 0]]

\* process_api_data (api_data.py lines 231-361): the frame built from the
\* payload has one row per match, and the loop of line 283 fills every row
process_api_data(raw, named_teams, additional_info) ==
    [i \in 1..Len(raw) |->
        ProcessRow(raw[i], named_teams, additional_info)]

\* Whether process_api_data raises on the payload: bookmaker["markets"][0]
\* (line 292) raises on a bookmaker entry whose markets list is empty
process_api_data_raises(raw) ==
    \E i \in 1..Len(raw) :
        \E k \in 1..Len(raw[i].bookmakers) : raw[i].bookmakers[k].markets = 0

-----------------------------------------------------------------------------
(* The oracle's answers *)

\* A key the literal does not hold, for a text and for a goal count
Missing == "<missing>"
MissingGoal == -1

\* A goal count that is a float: v.0 is written FloatBase + v
FloatBase == 100
IsInt(goal) == goal >= 0 /\ goal < FloatBase
GoalValue(goal) == goal % FloatBase

\* What llm.get_prediction and literal_eval make of one call: "error" when
\* get_prediction raises, "noparse" when literal_eval raises, "literal" with
\* the keys of the evaluated literal otherwise (a literal that is no dict
\* holds no key)
Response(kind, reasoning, home, away, outlook) ==
    [kind |-> kind, reasoning |-> reasoning, home |-> home, away |-> away,
     outlook |-> outlook]

Lit(reasoning, home, away, outlook) ==
    Response("literal", reasoning, home, away, outlook)

TransportError == Response("error", Missing, MissingGoal, MissingGoal, Missing)
Unparseable == Response("noparse", Missing, MissingGoal, MissingGoal, Missing)

\* last_response = None
NoResponse == Response("none", Missing, MissingGoal, MissingGoal, Missing)

\* The answers of the oracle in the runs over several combinations
FewResponses ==
    {TransportError,
     Lit("why", 1, 0, "teaser"),
     Lit("why", 0, 1, "teaser"),
     Lit("why", 1, 0, ""),
     Lit("why", MissingGoal, MissingGoal, Missing)}

\* The answers of the oracle in the runs over one combination
ManyResponses ==
    {TransportError, Unparseable}
    \cup {Lit("why", h, a, "teaser") : h, a \in 0..MaxGoals}
    \cup {Lit("", 0, 1, "teaser"), Lit("why", 1, 0, "")}
    \cup {Lit("why", FloatBase + 1, 0, "teaser"), Lit("why", 0, FloatBase + 1, "teaser")}
    \cup {Lit(Missing, MissingGoal, MissingGoal, Missing),
          Lit("why", MissingGoal, MissingGoal, Missing),
          Lit("why", 1, MissingGoal, "teaser"),
          Lit("why", 1, 0, Missing),
          Lit(Missing, 0, 1, "teaser")}

-----------------------------------------------------------------------------
(* The end of a run *)

\* No call of export_results, is_cloud_environment not asked, no summary
NoEnding == [exports |-> 0, cloud |-> "unasked", summary |-> FALSE]

\* The end of the run after a call of export_results that came to result:
\* is_cloud_environment is asked when it returned False or raised (lines
\* 702, 710, 730, 735)
Ended(e, result, cloud) ==
    [e EXCEPT !.exports = @ + 1,
              !.cloud = IF result = "true" THEN @
                        ELSE IF cloud THEN "cloud" ELSE "local"]

-----------------------------------------------------------------------------
(* The odds normalizer on one match of its own *)

\* No run of execute_workflow: the workflow's variables at rest
Idle ==
    /\ pc = "idle"
    /\ config = <<>>
    /\ oracle = {}
    /\ odds_source = {}
    /\ sport_idx = 0
    /\ combo_idx = 0
    /\ api_result = <<>>
    /\ data = <<>>
    /\ row = 0
    /\ attempt = 0
    /\ last_response = NoResponse
    /\ prediction_data = <<>>
    /\ key_order = <<>>
    /\ failed_combinations = <<>>
    /\ exported = <<>>
    /\ finished = <<>>
    /\ fetched = <<>>
    /\ processed = <<>>
    /\ hist = <<>>
    /\ llm_config = <<>>
    /\ durations = {}
    /\ clock = 0
    /\ start_time = 0
    /\ call_log = <<>>
    /\ storage_manager = "none"
    /\ export_result = "not_called"
    /\ ending = NoEnding
    /\ oracle_calls = 0
    /\ warned = {}
    /\ tables = <<>>

InitOdds ==
    /\ Idle
    /\ \E n \in 0..MaxBookmakers :
       \E ks \in KeySeqs(n), sts \in [1..n -> OutcomeStateMaps] :
            probe = [fn |-> "process_api_data",
                     api_result |-> <<RawMatch("H", "W", "L",
                                        Bookmakers(ks, sts, "H", "W"))>>,
                     done |-> FALSE,
                     out |-> <<>>]

Normalize ==
    /\ probe.fn = "process_api_data"
    /\ ~probe.done
    /\ \E named_teams, additional_info \in BOOLEAN :
            probe' = [probe EXCEPT
                !.done = TRUE,
                !.out = process_api_data(probe.api_result, named_teams,
                                         additional_info)]
    /\ UNCHANGED <<pc, wfvars>>

NextOdds == Normalize

SpecOdds == InitOdds /\ [][NextOdds]_vars

-----------------------------------------------------------------------------
(* is_prediction_consistent on a goal pair and an odds pair of its own *)

\* The odds (tenths) the consistency check is tried on
OddsValues == {14, 15, 20, 40, 55}

\* A variant that wants the odds behind every prediction: a draw only at
\* equal odds
is_prediction_consistent_backed(p_home, p_away, o_home, o_away) ==
    ~ \/ (p_home >= p_away /\ o_home > o_away)
      \/ (p_home <= p_away /\ o_home < o_away)
      \/ (p_home # p_away /\ o_home = o_away)

\* A variant with the comparisons of the odds strict
is_prediction_consistent_strict(p_home, p_away, o_home, o_away) ==
    ~ \/ (p_home > p_away /\ o_home > o_away)
      \/ (p_home < p_away /\ o_home < o_away)

\* is_prediction_consistent (tip_genius.py lines 340-349)
is_prediction_consistent(p_home, p_away, o_home, o_away) ==
    ~ \/ (p_home > p_away /\ o_home >= o_away)
      \/ (p_home < p_away /\ o_home <= o_away)

InitConsistency ==
    /\ Idle
    /\ \E p_home, p_away \in 0..MaxGoals, o_home, o_away \in OddsValues :
            probe = [fn |-> "is_prediction_consistent",
                     p_home |-> p_home, p_away |-> p_away,
                     o_home |-> o_home, o_away |-> o_away,
                     done |-> FALSE, out |-> FALSE]

Judge ==
    /\ probe.fn = "is_prediction_consistent"
    /\ ~probe.done
    /\ probe' = [probe EXCEPT
            !.done = TRUE,
            !.out = is_prediction_consistent(probe.p_home, probe.p_away,
                                             probe.o_home, probe.o_away)]
    /\ UNCHANGED <<pc, wfvars>>

NextConsistency == Judge

SpecConsistency == InitConsistency /\ [][NextConsistency]_vars

-----------------------------------------------------------------------------
(* The combination key of save_results on a 4-tuple of its own *)

\* The longest provider or style name, in tokens
MaxNameLen == 3

\* The tokens a name is made of: a letter and the underscore
NameTokens == {"a", "_"}

Names == UNION {[1..n -> NameTokens] : n \in 1..MaxNameLen}

\* The prediction types Prompt.get accepts (llm_prompts.py lines 80-83)
PromptTypes == {<<"Default">>, <<"FourPointsScoring">>}

\* A variant that leaves out the separator after the provider
CombinationKeyNoSeparator(llm_provider, prediction_type, named_teams, additional_info) ==
    llm_provider \o prediction_type \o <<"_">>
        \o <<IF named_teams THEN "named" ELSE "anonymized">> \o <<"_">>
        \o <<IF additional_info THEN "with-info" ELSE "no-info">>

\* key of save_results (tip_genius.py lines 472-476)
CombinationKey(llm_provider, prediction_type, named_teams, additional_info) ==
    llm_provider \o <<"_">> \o prediction_type \o <<"_">>
        \o <<IF named_teams THEN "named" ELSE "anonymized">> \o <<"_">>
        \o <<IF additional_info THEN "with-info" ELSE "no-info">>

KeyTuples ==
    [llm_provider : Names, prediction_type : Names \cup PromptTypes,
     named_teams : BOOLEAN, additional_info : BOOLEAN]

KeyOf(t) ==
    CombinationKey(t.llm_provider, t.prediction_type, t.named_teams,
                   t.additional_info)

InitKey ==
    /\ Idle
    /\ \E t \in KeyTuples :
            probe = [fn |-> "save_results", tuple |-> t,
                     done |-> FALSE, out |-> <<>>]

BuildKey ==
    /\ probe.fn = "save_results"
    /\ ~probe.done
    /\ probe' = [probe EXCEPT !.done = TRUE, !.out = KeyOf(probe.tuple)]
    /\ UNCHANGED <<pc, wfvars>>

NextKey == BuildKey

SpecKey == InitKey /\ [][NextKey]_vars

-----------------------------------------------------------------------------
(* The configuration and the environment of a run *)

\* self.llm_attempts
llm_attempts == 2

AllPriced == [side \in {"home", "away", "draw"} |-> "priced"]
NoDraw == [AllPriced EXCEPT !["draw"] = "absent"]

\* A match A quotes: the home team is the favourite, 1.5 / 5.5 / 4.5
MatchHomeFavourite ==
    RawMatch("H1", "W1", "League", Bookmakers(<<"A">>, <<AllPriced>>, "H1", "W1"))

\* A match B and X quote: the away team is the favourite, 4.0 / 2.0 / 3.5
MatchAwayFavourite ==
    RawMatch("H2", "W2", "League",
             Bookmakers(<<"X", "B">>, <<AllPriced, AllPriced>>, "H2", "W2"))

\* A match only X quotes in full: its canonical odds are the sentinel
MatchUnquoted ==
    RawMatch("H0", "W0", "League",
             Bookmakers(<<"X", "A">>, <<AllPriced, NoDraw>>, "H0", "W0"))

\* A match A quotes with the same price for both sides: 2.5 / 2.5 / 3.0
MatchEvenOdds ==
    RawMatch("H3", "W3", "League",
             <<[key |-> "A", markets |-> 1,
                outcomes |-> <<[name |-> "H3", price |-> 25],
                               [name |-> "W3", price |-> 25],
                               [name |-> Draw, price |-> 30]>>]>>)

\* The entries of llm_config.yaml, and those whose API key the environment
\* holds
ConfiguredProviders == {<<"p1">>, <<"p2">>, <<"nokey">>}
ProvidersWithKey == {<<"p1">>, <<"p2">>}

\* kwargs of a provider without a temperature
NoTemperature == -1

\* An entry of llm_config.yaml as far as predict_results reads it: the
\* temperature of kwargs in tenths (NoTemperature without one) and
\* api_rate_limit in requests per minute (0 without one)
ProviderConfig(temperature, api_rate_limit) ==
    [temperature |-> temperature, api_rate_limit |-> api_rate_limit]

\* A provider without temperature and without rate limit
PlainProvider == ProviderConfig(NoTemperature, 0)

\* llm_config.yaml with the same entry for every provider
SameForAll(entry) == [p \in ConfiguredProviders |-> entry]

\* A variant of the temperature that does not rise with the attempt
TemperatureFlat(entry, k) ==
    IF entry.temperature = NoTemperature THEN 0 ELSE entry.temperature

\* llm.kwargs.get("temperature", 0.0) + 0.2 * attempt, in tenths (lines
\* 379-380)
Temperature(entry, k) ==
    (IF entry.temperature = NoTemperature THEN 0 ELSE entry.temperature) + 2 * k

\* min_interval of wait_for_rate_limit, (60.0 / rate_limit) * 1.1 seconds,
\* in tenths of a second
MinInterval(rate_limit) == 660 \div rate_limit

\* The time after wait_for_rate_limit(request_duration) called at time now:
\* it sleeps what request_duration lacks of min_interval (llm_manager.py
\* lines 134-145)
wait_for_rate_limit(now, request_duration, rate_limit) ==
    IF request_duration < MinInterval(rate_limit)
        THEN now + (MinInterval(rate_limit) - request_duration)
        ELSE now

\* The time at which attempt k of a row asks the oracle, when the loop gets
\* to it at time now: from the second attempt on, predict_results waits for
\* the time since the start of the row (lines 371-374)
CallStart(now, row_start, k, rate_limit) ==
    IF k > 0 /\ rate_limit > 0
        THEN wait_for_rate_limit(now, now - row_start, rate_limit)
        ELSE now

\* The time at which get_prediction, asked at time asked, is left after a
\* request of duration d: when it returns a text it has waited for the rate
\* limit (llm_manager.py lines 306-308), when it raises it has not
CallEnd(asked, d, raised, rate_limit) ==
    IF ~raised /\ rate_limit > 0
        THEN wait_for_rate_limit(asked + d, d, rate_limit)
        ELSE asked + d

\* The entry of the calls log for attempt k on row i: the provider asked,
\* the temperature sent and the time of the request
Call(i, k, llm_provider, entry, asked) ==
    [row |-> i, attempt |-> k, provider |-> llm_provider,
     temperature |-> Temperature(entry, k), start |-> asked]

\* A match with a bookmaker entry that carries no market
MatchWithoutMarket ==
    RawMatch("H3", "W3", "League",
             <<[key |-> "A", markets |-> 0, outcomes |-> <<>>]>>)

\* The workflow configuration, with the options of the instance that the
\* workflow reads (export_to_kv, export_to_file, store_llm_results)
Config(sports, providers, styles, named, info, to_kv, to_file) ==
    [sports_list |-> sports, llm_provider_options |-> providers,
     prediction_type_options |-> styles, named_teams_options |-> named,
     additional_info_options |-> info, export_to_kv |-> to_kv,
     export_to_file |-> to_file, store_llm_results |-> FALSE]

\* The keys execute_workflow reads from the configuration (lines 558-562)
RequiredKeys ==
    {"sports_list", "llm_provider_options", "prediction_type_options",
     "named_teams_options", "additional_info_options"}

\* A configuration without one of its keys
WithoutKey(cfg, key) == [k \in DOMAIN cfg \ {key} |-> cfg[k]]

\* The configurations of the runs over several combinations
Configs ==
    {Config(<<"s1">>, <<<<"p1">>>>, <<<<"Default">>>>, <<TRUE, FALSE>>, <<FALSE>>,
            TRUE, FALSE),
     Config(<<"s1", "s2">>, <<<<"p1">>>>, <<<<"FourPointsScoring">>>>, <<TRUE>>,
            <<TRUE>>, FALSE, TRUE),
     Config(<<"s1">>, <<<<"nokey">>, <<"p2">>>>, <<<<"Default">>>>, <<FALSE>>,
            <<FALSE>>, TRUE, TRUE),
     Config(<<"s1">>, <<<<"p1">>>>, <<<<"a", "_", "a">>, <<"Default">>>>, <<FALSE>>,
            <<TRUE>>, FALSE, FALSE),
     Config(<<>>, <<<<"p1">>>>, <<<<"Default">>>>, <<TRUE>>, <<TRUE>>, TRUE, TRUE),
     Config(<<"s1">>, <<>>, <<<<"Default">>>>, <<TRUE>>, <<TRUE>>, TRUE, TRUE),
     [Config(<<"s1", "s2">>, <<<<"p1">>>>, <<<<"Default">>>>, <<TRUE>>, <<FALSE>>,
             TRUE, FALSE) EXCEPT !.store_llm_results = TRUE],
     WithoutKey(Config(<<"s1">>, <<<<"p1">>>>, <<<<"Default">>>>, <<TRUE>>,
                       <<TRUE>>, TRUE, TRUE), "additional_info_options")}

\* The configuration of the runs over a product with two lists of two: the
\* first provider has no API key in the environment
ManyCombinations ==
    Config(<<"s1", "s2">>, <<<<"nokey">>, <<"p2">>>>, <<<<"Default">>>>,
           <<TRUE, FALSE>>, <<TRUE>>, TRUE, FALSE)

\* The configuration of the runs over one combination
OneCombination ==
    Config(<<"s1">>, <<<<"p1">>>>, <<<<"Default">>>>, <<TRUE>>, <<FALSE>>, TRUE, FALSE)

-----------------------------------------------------------------------------
(* TipGenius.execute_workflow and TipGenius.predict_results *)

\* len(list(product(providers, styles, named, info)))
NrCombinations(cfg) ==
    Len(cfg.llm_provider_options) * Len(cfg.prediction_type_options)
        * Len(cfg.named_teams_options) * Len(cfg.additional_info_options)

\* A variant of the product in which the first list varies fastest
CombinationFirstFastest(cfg, k) ==
    LET nP == Len(cfg.llm_provider_options)
        nS == Len(cfg.prediction_type_options)
        nN == Len(cfg.named_teams_options)
        z  == k - 1
    IN  [llm_provider |-> cfg.llm_provider_options[(z % nP) + 1],
         prediction_type |-> cfg.prediction_type_options[((z \div nP) % nS) + 1],
         named_teams |-> cfg.named_teams_options[((z \div (nP * nS)) % nN) + 1],
         additional_info |->
            cfg.additional_info_options[(z \div (nP * nS * nN)) + 1]]

\* The k-th tuple of product(providers, styles, named, info), from 1: the
\* last list varies fastest
Combination(cfg, k) ==
    LET nI == Len(cfg.additional_info_options)
        nN == Len(cfg.named_teams_options)
        nS == Len(cfg.prediction_type_options)
        z  == k - 1
    IN  [llm_provider |-> cfg.llm_provider_options[(z \div (nI * nN * nS)) + 1],
         prediction_type |-> cfg.prediction_type_options[((z \div (nI * nN)) % nS) + 1],
         named_teams |-> cfg.named_teams_options[((z \div nI) % nN) + 1],
         additional_info |-> cfg.additional_info_options[(z % nI) + 1]]

\* A variant of the constructor that does not look for the API key
LLMManagerConstructsWithoutKey(llm_provider, prediction_type) ==
    /\ llm_provider \in ConfiguredProviders
    /\ prediction_type \in PromptTypes

\* Whether LLMManager(provider, prediction_type) returns: the provider has an
\* entry in llm_config.yaml, its API key is in the environment, and
\* Prompt.get knows the prediction type (llm_manager.py lines 93-114)
LLMManagerConstructs(llm_provider, prediction_type) ==
    /\ llm_provider \in ConfiguredProviders
    /\ llm_provider \in ProvidersWithKey
    /\ prediction_type \in PromptTypes

\* A variant of the odds test that looks for a negative price
OddsInvalidNegative(r) == r.odds_home < 0 \/ r.odds_away < 0 \/ r.odds_draw < 0

\* any(data[i, f"odds_{key}"] == 0 for key in ["home", "away", "draw"])
OddsInvalid(r) == r.odds_home = 0 \/ r.odds_away = 0 \/ r.odds_draw = 0

\* bool(last_response): None is false, and so is a literal without content
ResponseTruthy(resp) ==
    /\ resp.kind = "literal"
    /\ \/ resp.reasoning # Missing \/ resp.outlook # Missing
       \/ resp.home # MissingGoal \/ resp.away # MissingGoal

\* A variant that takes any two goal values for integers
validate_prediction_any_goals(pred) ==
    pred.reasoning # "" /\ pred.outlook # ""

\* validate_prediction (tip_genius.py lines 351-357), on a literal that
\* holds all four keys
validate_prediction(pred) ==
    /\ pred.reasoning # ""
    /\ pred.outlook # ""
    /\ IsInt(pred.home)
    /\ IsInt(pred.away)

\* A variant that leaves the retry loop on an inconsistent answer
BreaksLoopOnInconsistent(resp, r) ==
    /\ resp.kind = "literal"
    /\ resp.home # MissingGoal
    /\ resp.away # MissingGoal
    /\ ~is_prediction_consistent(GoalValue(resp.home), GoalValue(resp.away),
                                 r.odds_home, r.odds_away)

\* A variant that stays on a row whose odds hold a zero
AfterSkippedRowStay(i) == i

\* The row the loop over the rows turns to after one whose odds hold a
\* zero: the continue of line 362 goes on with the next row
AfterSkippedRow(i) == i + 1

\* A variant that also leaves the retry loop when the call raised or the
\* answer did not parse
BreaksLoopOnFailure(resp, r) ==
    \/ resp.kind \in {"error", "noparse"}
    \/ /\ resp.kind = "literal"
       /\ resp.home # MissingGoal
       /\ resp.away # MissingGoal
       /\ is_prediction_consistent(GoalValue(resp.home), GoalValue(resp.away),
                                   r.odds_home, r.odds_away)

\* Whether the attempt that got resp leaves the retry loop by its break:
\* reading a goal the literal does not hold raises before the check is made
BreaksLoop(resp, r) ==
    /\ resp.kind = "literal"
    /\ resp.home # MissingGoal
    /\ resp.away # MissingGoal
    /\ is_prediction_consistent(GoalValue(resp.home), GoalValue(resp.away),
                                r.odds_home, r.odds_away)

\* last_response = None, at the start of a row (line 365)
ResetResponse(prev) == NoResponse

\* A variant that keeps the first literal of the row
KeepResponseFirst(prev, resp) ==
    IF resp.kind = "literal" /\ prev.kind = "none" THEN resp ELSE prev

\* last_response after an attempt that got resp: the assignment of line 383
\* is reached when neither get_prediction nor literal_eval raised
KeepResponse(prev, resp) ==
    IF resp.kind = "literal" THEN resp ELSE prev

\* A variant that marks the row valid on its reasoning before the other
\* writes are made
WritePredictionValidityFirst(r, resp, casts) ==
    LET v  == IF resp.reasoning \notin {"", Missing} THEN 1 ELSE 0
        r0 == [r EXCEPT !.validity = v]
        r1 == [r0 EXCEPT !.reasoning = resp.reasoning]
        r2 == [r1 EXCEPT !.prediction_home = GoalValue(resp.home)]
        r3 == [r2 EXCEPT !.prediction_away = GoalValue(resp.away)]
        r4 == [r3 EXCEPT !.outlook = resp.outlook]
    IN  IF resp.reasoning = Missing THEN r0
        ELSE IF resp.home = MissingGoal THEN r1
        ELSE IF ~IsInt(resp.home) /\ ~casts THEN r1
        ELSE IF resp.away = MissingGoal THEN r2
        ELSE IF ~IsInt(resp.away) /\ ~casts THEN r2
        ELSE IF resp.outlook = Missing THEN r3
        ELSE r4

\* The row after lines 423-427 with last_response = resp: the writes are made
\* in order and the first key the literal does not hold raises, which leaves
\* the later columns as they were.  A float goal written to an integer column
\* is cast by the data frame or refused with an exception: casts tells which.
WritePrediction(r, resp, casts) ==
    LET r1 == [r EXCEPT !.reasoning = resp.reasoning]
        r2 == [r1 EXCEPT !.prediction_home = GoalValue(resp.home)]
        r3 == [r2 EXCEPT !.prediction_away = GoalValue(resp.away)]
        r4 == [r3 EXCEPT !.outlook = resp.outlook]
        r5 == [r4 EXCEPT !.validity = IF validate_prediction(resp) THEN 1 ELSE 0]
    IN  IF resp.reasoning = Missing THEN r
        ELSE IF resp.home = MissingGoal THEN r1
        ELSE IF ~IsInt(resp.home) /\ ~casts THEN r1
        ELSE IF resp.away = MissingGoal THEN r2
        ELSE IF ~IsInt(resp.away) /\ ~casts THEN r2
        ELSE IF resp.outlook = Missing THEN r3
        ELSE r5

\* The columns of a row that go to the Result Set (lines 665-676), with the
\* logos save_results adds without a logo matcher
ExportedMatch(r) ==
    [home_team |-> r.home_team, away_team |-> r.away_team,
     prediction_home |-> r.prediction_home,
     prediction_away |-> r.prediction_away,
     outlook |-> r.outlook, reasoning |-> r.reasoning,
     home_logo |-> "None", away_logo |-> "None"]

\* data_processed.filter(pl.col("validity").cast(pl.Boolean)), as the places
\* of the rows kept
RECURSIVE ValidRows(_, _)
ValidRows(table, from) ==
    IF from > Len(table) THEN <<>>
    ELSE (IF table[from].validity # 0 THEN <<from>> ELSE <<>>)
            \o ValidRows(table, from + 1)

\* A variant of the filter that keeps every row with a reasoning
RECURSIVE ReasonedRows(_, _)
ReasonedRows(table, from) ==
    IF from > Len(table) THEN <<>>
    ELSE (IF table[from].reasoning # "" THEN <<from>> ELSE <<>>)
            \o ReasonedRows(table, from + 1)

\* A variant of valid_matches over the rows with a reasoning
valid_matches_reasoned(table) ==
    LET kept == ReasonedRows(table, 1)
    IN  [k \in 1..Len(kept) |-> ExportedMatch(table[kept[k]])]

\* valid_matches (lines 663-677)
valid_matches(table) ==
    LET kept == ValidRows(table, 1)
    IN  [k \in 1..Len(kept) |-> ExportedMatch(table[kept[k]])]

\* A variant that stores the result of every combination
ShouldSaveAlways(matches) == TRUE

\* if valid_matches: (line 680)
ShouldSave(matches) == matches # <<>>

\* A variant that replaces the sports of the key by the one stored
save_results_one_sport(pd, sport, comb, matches) ==
    LET key == CombinationKey(comb.llm_provider, comb.prediction_type,
                              comb.named_teams, comb.additional_info)
    IN  [k \in DOMAIN pd \cup {key} |->
            IF k = key THEN [sp \in {sport} |-> matches] ELSE pd[k]]

\* self.prediction_data[key][sport] = matches, on a defaultdict(dict)
save_results(pd, sport, comb, matches) ==
    LET key == CombinationKey(comb.llm_provider, comb.prediction_type,
                              comb.named_teams, comb.additional_info)
        old == IF key \in DOMAIN pd THEN pd[key] ELSE <<>>
        new == [sp \in DOMAIN old \cup {sport} |->
                    IF sp = sport THEN matches ELSE old[sp]]
    IN  [k \in DOMAIN pd \cup {key} |-> IF k = key THEN new ELSE pd[k]]

\* A variant that leaves the loop over the sports after a fetch that raised
AfterFailedFetchBreak(idx, n) == n + 1

\* A variant that fetches the sport again after a fetch that raised
AfterFailedFetchRetry(idx, n) == idx

\* A variant that leaves the loop over the combinations after a failed one
AfterFailedCombinationBreak(idx, n) == n + 1

\* A variant that looks at the list of sports alone
AbortsRunSportsOnly(cfg) == cfg.sports_list = <<>>

\* A variant that exports only a run without failed combinations
ShouldExportWithoutFailures(pd, cfg, failed) ==
    pd # <<>> /\ (cfg.export_to_kv \/ cfg.export_to_file) /\ failed = <<>>

\* The two checks that abort the run (lines 564-571)
AbortsRun(cfg) == cfg.sports_list = <<>> \/ cfg.llm_provider_options = <<>>

\* The place of the sport the loop turns to after a fetch that raised: the
\* continue of line 602 goes on with the next sport of a list of n
AfterFailedFetch(idx, n) == idx + 1

\* The place of the combination the loop turns to after one that raised or
\* had no payload: the continue of lines 635 and 697 goes on with the next
\* combination of a product of n
AfterFailedCombination(idx, n) == idx + 1

\* A variant of the outer handler that raises again without an export
ShouldExportAfterErrorNever(pd, cfg) == FALSE

\* The condition of the export in the outer handler (line 728)
ShouldExportAfterError(pd, cfg) ==
    pd # <<>> /\ (cfg.export_to_kv \/ cfg.export_to_file)

\* The condition of the export (line 700)
ShouldExport(pd, cfg, failed) ==
    pd # <<>> /\ (cfg.export_to_kv \/ cfg.export_to_file)

\* The entry of the combinations log for a combination that is entered
Entered(sport, comb, raw, client_ok, outcome) ==
    [sport |-> sport, comb |-> comb, raw |-> raw, client_ok |-> client_ok,
     outcome |-> outcome]

\* The entry of the tables log for a call of process_api_data that returned:
\* the fetch whose payload it was given, the combination, and its table
Normalized(fetch, comb, table) ==
    [fetch |-> fetch, comb |-> comb, rows |-> table]

\* The combinations log with the outcome of its last entry set
Outcome(log, outcome) == [log EXCEPT ![Len(log)].outcome = outcome]

\* An instance of TipGenius no run was made with: the Result Set of the
\* class is empty and the instance has no storage manager (lines 119, 134)
FreshInstance ==
    [prediction_data |-> <<>>, key_order |-> <<>>, storage_manager |-> "none"]

InitRun(cfgs, responses, payloads, llm_cfgs, durs, instances) ==
    /\ probe = [fn |-> "execute_workflow"]
    /\ pc = "start"
    /\ config \in cfgs
    /\ oracle = responses
    /\ odds_source = payloads
    /\ sport_idx = 0
    /\ combo_idx = 0
    /\ api_result = <<>>
    /\ data = <<>>
    /\ row = 0
    /\ attempt = 0
    /\ last_response = NoResponse
    /\ \E instance \in instances :
            /\ prediction_data = instance.prediction_data
            /\ key_order = instance.key_order
            /\ storage_manager = instance.storage_manager
    /\ export_result = "not_called"
    /\ ending = NoEnding
    /\ oracle_calls = 0
    /\ warned = {}
    /\ tables = <<>>
    /\ failed_combinations = <<>>
    /\ exported = <<>>
    /\ finished = <<>>
    /\ fetched = <<>>
    /\ processed = <<>>
    /\ hist = <<>>
    /\ llm_config \in llm_cfgs
    /\ durations = durs
    /\ clock = 0
    /\ start_time = 0
    /\ call_log = <<>>

\* A run with providers without temperature and rate limit, and requests
\* that take a tenth of a second
InitWorkflow(cfgs, responses, payloads) ==
    InitRun(cfgs, responses, payloads, {SameForAll(PlainProvider)}, {1},
            {FreshInstance})

\* The calls export_results can make of the sink (lines 495-513): one per key
\* of the Result Set, in insertion order, each handing the sink the sports of
\* the key; a call reports success, reports failure, or raises, and a raise
\* ends the loop
SinkResults == {"ok", "failed", "raised"}

SinkCalls(pd, keys) ==
    {[k \in 1..n |-> [key |-> keys[k], sport_data |-> pd[keys[k]],
                      result |-> results[k]]] :
        n \in 1..Len(keys), results \in [1..Len(keys) -> SinkResults]}

ExportCalls(pd, keys) ==
    {calls \in SinkCalls(pd, keys) :
        /\ \A k \in 1..Len(calls) - 1 : calls[k].result # "raised"
        /\ Len(calls) < Len(keys) => calls[Len(calls)].result = "raised"}

\* What export_results comes to with these calls of the sink (lines 494,
\* 507-520): a call that raises ends it with the exception, and otherwise
\* it returns whether every call reported success
ResultOf(calls) ==
    IF calls[Len(calls)].result = "raised" THEN "raised"
    ELSE IF \A k \in 1..Len(calls) : calls[k].result = "ok" THEN "true"
    ELSE "false"

\* export_results (lines 479-520) on a Result Set that holds an entry:
\* without a storage manager it returns False and makes no call
export_results(pd, keys, manager) ==
    IF manager = "none"
        THEN {[calls |-> <<>>, result |-> "false"]}
        ELSE {[calls |-> calls, result |-> ResultOf(calls)] :
                calls \in ExportCalls(pd, keys)}

\* A variant that ends the process after every export that failed or raised
ExitsAfterAlways(result, cloud) == result # "true"

\* Whether the run ends in sys.exit(1) after export_results came to result
\* (lines 703-712 and 731-736): in a cloud environment, when it returned
\* False or raised
ExitsAfter(result, cloud) == cloud /\ result # "true"

\* Lines 725-737: the outer handler, entered with the exception that escaped
\* and the Result Set as it is then; it exports when the Result Set holds an
\* entry and a channel is enabled, and raises the exception again unless
\* the process exits
OuterHandler(pd, keys, manager) ==
    IF ShouldExportAfterError(pd, config)
        THEN \E run \in export_results(pd, keys, manager), cloud \in BOOLEAN :
                /\ exported' = exported \o run.calls
                /\ export_result' = run.result
                /\ ending' = Ended(ending, run.result, cloud)
                /\ pc' = IF ExitsAfter(run.result, cloud)
                            THEN "exited" ELSE "raised"
        ELSE /\ pc' = "raised"
             /\ UNCHANGED <<exported, export_result, ending>>

\* Lines 533-586 and 725-737: the storage manager, the cleared Result Set,
\* the configuration lists and the two checks that abort the run.  The
\* constructor of the storage manager returns or raises; a raise leaves
\* self.storage_manager and the Result Set as they were and goes to the
\* outer handler, and so does a key the configuration does not hold, after
\* the Result Set was cleared.
BeginWorkflow ==
    /\ pc = "start"
    /\ \/ /\ OuterHandler(prediction_data, key_order, storage_manager)
          /\ UNCHANGED <<prediction_data, key_order, sport_idx,
                         storage_manager>>
       \/ /\ storage_manager' = "configured"
          /\ prediction_data' = <<>>
          /\ key_order' = <<>>
          /\ IF ~(RequiredKeys \subseteq DOMAIN config)
                THEN /\ OuterHandler(<<>>, <<>>, "configured")
                     /\ UNCHANGED sport_idx
                ELSE /\ IF AbortsRun(config)
                           THEN pc' = "done" /\ UNCHANGED sport_idx
                           ELSE pc' = "fetch" /\ sport_idx' = 1
                     /\ UNCHANGED <<exported, export_result, ending>>
    /\ UNCHANGED <<probe, config, oracle, odds_source, combo_idx, api_result,
                   data, row, attempt, last_response, failed_combinations,
                   finished, fetched, processed, hist, envvars, warned, tables,
                   oracle_calls, timevars>>

\* Lines 588-609: the next sport of the list, its fetch (which returns a
\* payload or raises, and a raise skips the sport), and the end of the loop
FetchOdds ==
    /\ pc = "fetch"
    /\ IF sport_idx > Len(config.sports_list)
          THEN /\ pc' = "export"
               /\ UNCHANGED <<sport_idx, combo_idx, api_result, fetched>>
          ELSE \/ /\ sport_idx' = AfterFailedFetch(sport_idx,
                                                   Len(config.sports_list))
                  /\ fetched' = Append(fetched,
                                    [sport |-> config.sports_list[sport_idx],
                                     ok |-> FALSE, payload |-> <<>>])
                  /\ UNCHANGED <<pc, combo_idx, api_result>>
               \/ \E payload \in odds_source :
                     /\ api_result' = payload
                     /\ fetched' = Append(fetched,
                                    [sport |-> config.sports_list[sport_idx],
                                     ok |-> TRUE, payload |-> payload])
                     /\ combo_idx' = 1
                     /\ pc' = "combo"
                     /\ UNCHANGED sport_idx
    /\ UNCHANGED <<probe, config, oracle, odds_source, data, row, attempt,
                   last_response, prediction_data, key_order,
                   failed_combinations, exported, finished, processed, hist,
                   envvars, warned, tables, oracle_calls, sinkvars, timevars>>

\* A variant that takes every payload for data
NoValidDataNever(payload) == FALSE

\* if not api_result (line 628): the payload of the sport is empty
NoValidData(payload) == payload = <<>>

\* Lines 611-650 and 331-338: the next combination of the product; with an
\* empty payload it is recorded as failed, otherwise the payload is
\* normalized and predict_results constructs the oracle client, returning the
\* table as it is when the constructor raises
BeginCombination ==
    /\ pc = "combo"
    /\ IF combo_idx > NrCombinations(config)
          THEN /\ sport_idx' = sport_idx + 1
               /\ pc' = "fetch"
               /\ UNCHANGED <<combo_idx, data, row, failed_combinations,
                              finished, processed, hist, timevars, warned, tables>>
          ELSE LET comb == Combination(config, combo_idx)
                   sport == config.sports_list[sport_idx]
                   table == process_api_data(api_result, comb.named_teams,
                                             comb.additional_info)
                   client_ok == LLMManagerConstructs(comb.llm_provider,
                                                     comb.prediction_type)
               IN  IF NoValidData(api_result)
                      THEN /\ failed_combinations' =
                                Append(failed_combinations,
                                       <<sport, comb.llm_provider,
                                         "No valid API data">>)
                           /\ processed' =
                                Append(processed,
                                       Entered(sport, comb, <<>>, TRUE, "no_data"))
                           /\ combo_idx' =
                                AfterFailedCombination(combo_idx,
                                                       NrCombinations(config))
                           /\ UNCHANGED <<pc, sport_idx, data, row, finished,
                                          hist, timevars, warned, tables>>
                      ELSE IF process_api_data_raises(api_result)
                      THEN /\ failed_combinations' =
                                Append(failed_combinations,
                                       <<sport, comb.llm_provider,
                                         "list index out of range">>)
                           /\ processed' =
                                Append(processed,
                                       Entered(sport, comb, api_result, TRUE,
                                               "normalize_raised"))
                           /\ combo_idx' =
                                AfterFailedCombination(combo_idx,
                                                       NrCombinations(config))
                           /\ UNCHANGED <<pc, sport_idx, data, row, finished,
                                          hist, timevars, warned, tables>>
                      ELSE /\ data' = table
                           /\ hist' = [i \in 1..Len(table) |-> <<>>]
                           /\ call_log' = <<>>
                           /\ warned' = {}
                           /\ tables' = Append(tables,
                                            Normalized(Len(fetched), comb, table))
                           /\ clock' = 0
                           /\ start_time' = 0
                           /\ finished' = <<>>
                           /\ row' = 1
                           /\ processed' =
                                Append(processed,
                                       Entered(sport, comb, api_result,
                                               client_ok, "started"))
                           /\ pc' = IF client_ok THEN "row" ELSE "combo_end"
                           /\ UNCHANGED <<sport_idx, combo_idx,
                                          failed_combinations>>
    /\ UNCHANGED <<probe, config, oracle, odds_source, api_result, attempt,
                   last_response, prediction_data, key_order, exported, fetched,
                   envvars, oracle_calls, sinkvars>>

\* Lines 359-367: the next row; a row with a zero among its odds is skipped
NextRow ==
    /\ pc = "row"
    /\ IF row > Len(data)
          THEN /\ pc' = "combo_end"
               /\ UNCHANGED <<row, attempt, last_response, start_time>>
          ELSE IF OddsInvalid(data[row])
                  THEN /\ row' = AfterSkippedRow(row)
                       /\ UNCHANGED <<pc, attempt, last_response, start_time>>
                  ELSE /\ last_response' = ResetResponse(last_response)
                       /\ attempt' = 0
                       /\ start_time' = clock
                       /\ pc' = "attempt"
                       /\ UNCHANGED row
    /\ UNCHANGED <<probe, config, oracle, odds_source, sport_idx, combo_idx,
                   api_result, data, prediction_data, key_order,
                   failed_combinations, exported, finished, fetched, processed,
                   hist, envvars, warned, tables, oracle_calls, sinkvars, clock,
                   call_log>>

\* Lines 369-404 and llm_manager.py lines 261-308: one pass of the retry loop, with the oracle's answer resp
Attempt ==
    /\ pc = "attempt"
    /\ \E resp \in oracle, d \in durations :
        LET llm_provider == Combination(config, combo_idx).llm_provider
            entry == llm_config[llm_provider]
            asked == CallStart(clock, start_time, attempt, entry.api_rate_limit)
        IN  /\ call_log' = Append(call_log, Call(row, attempt, llm_provider,
                                                  entry, asked))
            /\ clock' = CallEnd(asked, d, resp.kind = "error",
                                entry.api_rate_limit)
        /\ oracle_calls' = oracle_calls + 1
        /\ hist' = [hist EXCEPT ![row] = Append(@, resp)]
        /\ last_response' = KeepResponse(last_response, resp)
        /\ IF BreaksLoop(resp, data[row]) \/ attempt = llm_attempts - 1
              THEN pc' = "row_end" /\ UNCHANGED attempt
              ELSE attempt' = attempt + 1 /\ UNCHANGED pc
    /\ UNCHANGED <<probe, config, oracle, odds_source, sport_idx, combo_idx,
                   api_result, data, row, prediction_data, key_order,
                   failed_combinations, exported, finished, fetched, processed,
                   envvars, warned, tables, sinkvars, start_time>>

\* Whether a write of lines 423-427 raises with last_response = resp: the
\* literal lacks a key, or the frame refuses a float goal
WriteRaises(resp, casts) ==
    \/ resp.reasoning = Missing
    \/ resp.home = MissingGoal
    \/ resp.away = MissingGoal
    \/ resp.outlook = Missing
    \/ (~IsInt(resp.home) \/ ~IsInt(resp.away)) /\ ~casts

\* A variant that leaves the loop over the rows after a row that raised
AfterFailedRowBreak(i, n) == n + 1

\* The row the loop turns to after a row whose processing raised: the
\* continue of line 431 goes on with the next row of a table of n
AfterFailedRow(i, n) == i + 1

\* Whether "Using inconsistent prediction" is logged for a row whose loop
\* was left with last_response = resp and attempt = k (lines 406-420): the
\* row has a response and the loop was left in its last pass
WarnsInconsistent(resp, k) == ResponseTruthy(resp) /\ k = llm_attempts - 1

\* Lines 406-431: after the loop, the row is left alone without a response
\* and takes the fields of last_response otherwise
EndRow ==
    /\ pc = "row_end"
    /\ warned' = IF WarnsInconsistent(last_response, attempt)
                    THEN warned \cup {row} ELSE warned
    /\ \E casts \in BOOLEAN :
            IF ResponseTruthy(last_response)
               THEN /\ data' = [data EXCEPT
                                ![row] = WritePrediction(@, last_response, casts)]
                    /\ row' = IF WriteRaises(last_response, casts)
                                THEN AfterFailedRow(row, Len(data))
                                ELSE row + 1
               ELSE /\ data' = data
                    /\ row' = row + 1
    /\ pc' = "row"
    /\ UNCHANGED <<probe, config, oracle, odds_source, sport_idx, combo_idx,
                   api_result, attempt, last_response, prediction_data,
                   key_order, failed_combinations, exported, finished, fetched,
                   processed, hist, envvars, tables, oracle_calls, sinkvars,
                   timevars>>

\* Lines 652-697: with store_llm_results the table is written to a file
\* first, and store_llm_data raises again what that raises, which makes the
\* combination a failed one; otherwise the valid rows of the table are
\* stored when there is one
EndCombination ==
    /\ pc = "combo_end"
    /\ LET comb == Combination(config, combo_idx)
           sport == config.sports_list[sport_idx]
           key == CombinationKey(comb.llm_provider, comb.prediction_type,
                                 comb.named_teams, comb.additional_info)
       IN  \/ /\ config.store_llm_results
              /\ failed_combinations' =
                    Append(failed_combinations,
                           <<sport, comb.llm_provider, "store_llm_data">>)
              /\ processed' = Outcome(processed, "store_raised")
              /\ combo_idx' = AfterFailedCombination(combo_idx,
                                                     NrCombinations(config))
              /\ UNCHANGED <<prediction_data, key_order, finished>>
           \/ /\ IF ShouldSave(valid_matches(data))
                    THEN /\ prediction_data' =
                               save_results(prediction_data, sport, comb,
                                            valid_matches(data))
                         /\ key_order' = IF key \in DOMAIN prediction_data
                                            THEN key_order
                                            ELSE Append(key_order, key)
                    ELSE UNCHANGED <<prediction_data, key_order>>
              /\ finished' = <<sport, comb>>
              /\ processed' = Outcome(processed, "completed")
              /\ combo_idx' = combo_idx + 1
              /\ UNCHANGED failed_combinations
    /\ pc' = "combo"
    /\ UNCHANGED <<probe, config, oracle, odds_source, sport_idx, api_result,
                   data, row, attempt, last_response, exported, fetched, hist,
                   envvars, warned, tables, oracle_calls, sinkvars, timevars>>

\* Lines 699-712: the Result Set goes to the sink when it holds an entry and
\* a channel is enabled; in a cloud environment an export that failed or
\* raised ends the process
Export ==
    /\ pc = "export"
    /\ IF ShouldExport(prediction_data, config, failed_combinations)
          THEN \E run \in export_results(prediction_data, key_order,
                                         storage_manager),
                  cloud \in BOOLEAN :
                    /\ exported' = exported \o run.calls
                    /\ export_result' = run.result
                    /\ ending' = Ended(ending, run.result, cloud)
                    /\ pc' = IF ExitsAfter(run.result, cloud)
                                THEN "exited" ELSE "summary"
          ELSE /\ pc' = "summary"
               /\ UNCHANGED <<exported, export_result, ending>>
    /\ UNCHANGED <<probe, config, oracle, odds_source, sport_idx, combo_idx,
                   api_result, data, row, attempt, last_response,
                   prediction_data, key_order, failed_combinations, finished,
                   fetched, processed, hist, envvars, warned, tables, oracle_calls,
                   timevars,
                   storage_manager>>

\* Lines 714-723: the summary of the failed combinations, and the return
Summary ==
    /\ pc = "summary"
    /\ pc' = "done"
    /\ ending' = [ending EXCEPT !.summary = TRUE]
    /\ UNCHANGED <<probe, config, oracle, odds_source, sport_idx, combo_idx,
                   api_result, data, row, attempt, last_response,
                   prediction_data, key_order, failed_combinations, exported,
                   finished, fetched, processed, hist, envvars, warned, tables,
                   oracle_calls, timevars, storage_manager, export_result>>

Next ==
    \/ BeginWorkflow
    \/ FetchOdds
    \/ BeginCombination
    \/ NextRow
    \/ Attempt
    \/ EndRow
    \/ EndCombination
    \/ Export
    \/ Summary

\* Runs over several combinations and sports, with few answers of the oracle
Init ==
    InitWorkflow(Configs, FewResponses,
                 {<<>>, <<MatchWithoutMarket>>,
                  <<MatchUnquoted, MatchHomeFavourite>>,
                  <<MatchHomeFavourite, MatchAwayFavourite>>})

Spec == Init /\ [][Next]_vars

\* Runs over one combination, with many answers of the oracle
InitRetry ==
    InitWorkflow({OneCombination}, ManyResponses,
                 {<<MatchHomeFavourite>>, <<MatchUnquoted, MatchAwayFavourite>>})

SpecRetry == InitRetry /\ [][Next]_vars

\* The consistency check on a goal pair and an odds pair of its own, and runs
\* over one combination and one match with equal odds for both sides, with
\* many answers of the oracle
InitDraw ==
    \/ InitConsistency
    \/ InitWorkflow({OneCombination}, ManyResponses, {<<MatchEvenOdds>>})

NextDraw == NextConsistency \/ Next

SpecDraw == InitDraw /\ [][NextDraw]_vars

\* Runs over two sports and four combinations, with one match and an oracle
\* that fails or gives one answer
InitOrder ==
    InitWorkflow({ManyCombinations,
                  WithoutKey(ManyCombinations, "named_teams_options")},
                 {TransportError, Lit("why", 1, 0, "teaser")},
                 {<<MatchHomeFavourite>>})

SpecOrder == InitOrder /\ [][Next]_vars

\* The rate limit of the provider in the runs on the clock, in requests per
\* minute: its min_interval is three tenths of a second
RateLimit == 220

\* The temperature of the provider in the runs on the clock: 0.7
BaseTemperature == 7

\* Runs over one combination and two matches, with a provider that has or
\* has not a temperature and a rate limit, an oracle that fails or answers,
\* and requests that take less or more than min_interval
InitRate ==
    InitRun({OneCombination},
            {TransportError, Lit("why", 1, 0, "teaser"), Lit("why", 0, 1, "teaser")},
            {<<MatchHomeFavourite, MatchAwayFavourite>>},
            {SameForAll(ProviderConfig(t, r)) :
                t \in {NoTemperature, BaseTemperature}, r \in {0, RateLimit}},
            {1, 4}, {FreshInstance})

SpecRate == InitRate /\ [][Next]_vars

\* A match an earlier run stored, for a sport of its configuration
StaleMatch ==
    ExportedMatch(WritePrediction(ProcessRow(MatchAwayFavourite, TRUE, FALSE),
                                  Lit("why", 0, 1, "teaser"), TRUE))

\* What an earlier run of execute_workflow in the same process leaves: the
\* Result Set is an attribute of the class (line 119), so it holds the
\* entries of that run for every instance; the instance that made the run
\* holds its storage manager, another instance holds none
EarlierRuns ==
    {[prediction_data |->
            save_results(<<>>, "s0", Combination(OneCombination, 1),
                         <<StaleMatch>>),
      key_order |-> <<CombinationKey(<<"p1">>, <<"Default">>, TRUE, FALSE)>>,
      storage_manager |-> manager] : manager \in {"none", "configured"}}

\* Runs over one combination, with and without an export channel and with a
\* configuration that lacks a key, on an instance that is fresh or comes
\* after an earlier run
InitRerun ==
    InitRun({OneCombination,
             Config(<<"s1">>, <<<<"p1">>>>, <<<<"Default">>>>, <<TRUE>>,
                    <<FALSE>>, FALSE, FALSE),
             WithoutKey(OneCombination, "named_teams_options")},
            {TransportError, Lit("why", 1, 0, "teaser")},
            {<<MatchHomeFavourite, MatchAwayFavourite>>},
            {SameForAll(PlainProvider)}, {1},
            {FreshInstance} \cup EarlierRuns)

SpecRerun == InitRerun /\ [][Next]_vars

\* Runs over two sports and one combination, with payloads of no match, of
\* two matches of which one has no canonical odds, of two matches with odds,
\* and of a match on which the normalizer raises
InitTermination ==
    InitWorkflow({Config(<<"s1", "s2">>, <<<<"p1">>>>, <<<<"Default">>>>,
                         <<TRUE>>, <<FALSE>>, TRUE, FALSE)},
                 {TransportError, Lit("why", 1, 0, "teaser")},
                 {<<>>, <<MatchWithoutMarket>>,
                  <<MatchUnquoted, MatchHomeFavourite>>,
                  <<MatchHomeFavourite, MatchAwayFavourite>>})

\* The workflow is one sequential thread: as long as every fetch, oracle
\* call and sink call returns or raises, the step the run stands at is
\* taken
SpecTermination == InitTermination /\ [][Next]_vars /\ WF_vars(Next)

-----------------------------------------------------------------------------
(* Properties of the odds normalizer *)

\* A bookmaker quotes an outcome when its market lists the outcome with a
\* price; a price of 0.0 is no quote (decimal odds are positive)
QuotesOutcome(bookmaker, name) ==
    \E k \in 1..Len(bookmaker.outcomes) :
        /\ bookmaker.outcomes[k].name = name
        /\ bookmaker.outcomes[k].price > 0

QuotesAll(bookmaker, match) ==
    /\ QuotesOutcome(bookmaker, match.home_team)
    /\ QuotesOutcome(bookmaker, match.away_team)
    /\ QuotesOutcome(bookmaker, Draw)

PriceOf(bookmaker, name) ==
    LET k == CHOOSE j \in 1..Len(bookmaker.outcomes) :
                bookmaker.outcomes[j].name = name
    IN  bookmaker.outcomes[k].price

TripleOf(bookmaker, match) ==
    <<PriceOf(bookmaker, match.home_team), PriceOf(bookmaker, match.away_team),
      PriceOf(bookmaker, Draw)>>

\* The entry of a match's bookmakers list with the given key
EntryOf(match, key) ==
    match.bookmakers[CHOOSE k \in 1..Len(match.bookmakers) :
                        match.bookmakers[k].key = key]

HasEntry(match, key) ==
    \E k \in 1..Len(match.bookmakers) : match.bookmakers[k].key = key

\* The places of the priority list whose bookmaker quotes all three outcomes
CompletePlaces(match) ==
    {k \in 1..Len(bookmaker_priority) :
        /\ HasEntry(match, bookmaker_priority[k])
        /\ QuotesAll(EntryOf(match, bookmaker_priority[k]), match)}

RowOdds(r) == <<r.odds_home, r.odds_away, r.odds_draw>>

\* C3: the canonical odds of every match are the (home, away, draw) prices
\* of the first bookmaker of the priority list that quotes all three
\* outcomes of the match; a bookmaker that misses one is passed over, also
\* at the head of the list.
C3_FirstCompleteBookmakerWins ==
    (probe.fn = "process_api_data" /\ probe.done) =>
        \A i \in 1..Len(probe.api_result) :
            LET match == probe.api_result[i]
            IN  CompletePlaces(match) # {} =>
                    RowOdds(probe.out[i]) =
                        TripleOf(EntryOf(match,
                            bookmaker_priority[Min(CompletePlaces(match))]),
                            match)

\* C3 witness: the head of the priority list is in the payload, after the
\* second one, with an outcome missing, and the second one's prices are
\* the canonical odds
C3_Witness ==
    /\ probe.fn = "process_api_data" /\ probe.done
    /\ LET match == probe.api_result[1]
       IN  /\ Len(match.bookmakers) = 2
           /\ match.bookmakers[1].key = "B"
           /\ match.bookmakers[2].key = "A"
           /\ ~QuotesAll(match.bookmakers[2], match)
           /\ QuotesOutcome(match.bookmakers[2], match.home_team)
           /\ RowOdds(probe.out[1]) = <<40, 20, 35>>

\* C4: when no bookmaker of the priority list quotes all three outcomes of a
\* match, the canonical odds are (0.0, 0.0, 0.0), whatever the bookmakers
\* outside the list quote.
C4_SentinelWithoutPrioritizedQuote ==
    (probe.fn = "process_api_data" /\ probe.done) =>
        \A i \in 1..Len(probe.api_result) :
            CompletePlaces(probe.api_result[i]) = {} =>
                RowOdds(probe.out[i]) = <<0, 0, 0>>

\* C4 witness: a bookmaker outside the list quotes all three outcomes, one
\* of the list quotes two of them, and the odds are the sentinel
C4_Witness ==
    /\ probe.fn = "process_api_data" /\ probe.done
    /\ LET match == probe.api_result[1]
       IN  /\ HasEntry(match, "X")
           /\ QuotesAll(EntryOf(match, "X"), match)
           /\ HasEntry(match, "A")
           /\ ~QuotesAll(EntryOf(match, "A"), match)
           /\ RowOdds(probe.out[1]) = <<0, 0, 0>>

-----------------------------------------------------------------------------
(* Properties of the consistency check *)

\* The side the goals make the strict winner, and the side the odds make the
\* strict favourite (the lower decimal odds); "none" for a draw or equal odds
GoalWinner(p_home, p_away) ==
    IF p_home > p_away THEN "home" ELSE IF p_away > p_home THEN "away" ELSE "none"

OddsFavourite(o_home, o_away) ==
    IF o_home < o_away THEN "home" ELSE IF o_away < o_home THEN "away" ELSE "none"

\* C6: a prediction is judged inconsistent exactly when the goals name a
\* strict winner and the odds do not make that side the strict favourite,
\* i.e. (home > away and odds_home >= odds_away) or (home < away and
\* odds_home <= odds_away); 2:0 at 1.5/5.5 is consistent, 0:2 at 1.5/5.5 is not.
C6_InconsistentIffWinnerIsNotFavourite ==
    (probe.fn = "is_prediction_consistent" /\ probe.done) =>
        /\ ~probe.out <=>
              /\ GoalWinner(probe.p_home, probe.p_away) # "none"
              /\ GoalWinner(probe.p_home, probe.p_away) #
                    OddsFavourite(probe.o_home, probe.o_away)
        /\ (probe.p_home = 2 /\ probe.p_away = 0 /\ probe.o_home = 15
                /\ probe.o_away = 55) => probe.out
        /\ (probe.p_home = 0 /\ probe.p_away = 2 /\ probe.o_home = 15
                /\ probe.o_away = 55) => ~probe.out

\* C6 witness: a home win at equal odds has been judged inconsistent
C6_Witness ==
    /\ probe.fn = "is_prediction_consistent" /\ probe.done
    /\ probe.p_home = 2 /\ probe.p_away = 0
    /\ probe.o_home = 20 /\ probe.o_away = 20
    /\ ~probe.out

-----------------------------------------------------------------------------
(* Properties of the combination key *)

HasUnderscore(name) == \E k \in 1..Len(name) : name[k] = "_"

\* C10 as stated: the key of a 4-tuple differs from the key of every other
\* 4-tuple.
C10_KeyInjectiveOnAllTuples ==
    (probe.fn = "save_results" /\ probe.done) =>
        \A t \in KeyTuples : t # probe.tuple => KeyOf(t) # probe.out

\* C10 as amended: the key is a function of the 4-tuple, and it differs from
\* the key of every other 4-tuple among those whose prediction style holds
\* no underscore (among them the styles Prompt.get accepts, the only ones
\* with which execute_workflow reaches save_results).
C10_KeyInjectiveOnUnderscoreFreeStyles ==
    (probe.fn = "save_results" /\ probe.done) =>
        /\ \A t \in KeyTuples : t = probe.tuple => KeyOf(t) = probe.out
        /\ ~HasUnderscore(probe.tuple.prediction_type) =>
              \A t \in KeyTuples :
                  (t # probe.tuple /\ ~HasUnderscore(t.prediction_type))
                      => KeyOf(t) # probe.out

\* C10 witness: a key has been built for a provider name that holds an
\* underscore and a style Prompt.get accepts
C10_Witness ==
    /\ probe.fn = "save_results" /\ probe.done
    /\ probe.tuple.llm_provider = <<"a", "_", "a">>
    /\ probe.tuple.prediction_type = <<"Default">>
    /\ probe.out = <<"a", "_", "a", "_", "Default", "_",
                     IF probe.tuple.named_teams THEN "named" ELSE "anonymized",
                     "_",
                     IF probe.tuple.additional_info THEN "with-info" ELSE "no-info">>

-----------------------------------------------------------------------------
(* Properties of the retry engine *)

Max(S) == CHOOSE x \in S : \A y \in S : y <= x

\* The rows of the table the retry engine is through with
EndedRows == {i \in 1..Len(data) : i < row}

\* The Prediction a row holds, and the Prediction a response carries
RowPrediction(r) ==
    <<r.reasoning, r.prediction_home, r.prediction_away, r.outlook>>

ResponsePrediction(resp) ==
    <<resp.reasoning, GoalValue(resp.home), GoalValue(resp.away), resp.outlook>>

InitialPrediction == <<"", 0, 0, "">>

\* A response that parsed: the literal holds the reasoning, both goals and
\* the outlook
Parsed(resp) ==
    /\ resp.kind = "literal"
    /\ resp.reasoning # Missing /\ resp.outlook # Missing
    /\ resp.home # MissingGoal /\ resp.away # MissingGoal

\* A response whose goals can be read and agree with the odds of the row
AgreesWithOdds(resp, r) ==
    /\ resp.kind = "literal"
    /\ resp.home # MissingGoal /\ resp.away # MissingGoal
    /\ LET winner == GoalWinner(GoalValue(resp.home), GoalValue(resp.away))
       IN  winner = "none" \/ winner = OddsFavourite(r.odds_home, r.odds_away)

\* An attempt that failed: the call raised, or its answer did not parse
FailedAttempt(resp) == ~Parsed(resp)

\* C1: a match whose canonical odds hold a zero gets no call of the oracle,
\* in any combination of the run.
C1_NoCallOnZeroOdds ==
    \A i \in 1..Len(data) :
        (0 \in {data[i].odds_home, data[i].odds_away, data[i].odds_draw})
            => hist[i] = <<>>

\* C1 witness: the rows of a combination are done, the first one has the
\* sentinel odds and got no call, the second one has odds and got calls
C1_Witness ==
    /\ pc = "combo_end"
    /\ Len(data) = 2
    /\ RowOdds(data[1]) = <<0, 0, 0>>
    /\ hist[1] = <<>>
    /\ RowOdds(data[2]) = <<15, 55, 45>>
    /\ Len(hist[2]) = llm_attempts

\* C2: a match with non-zero odds gets at most llm_attempts calls of the
\* oracle, and no call follows the first answer that parses and agrees with
\* the odds.
C2_BoundedCallsAndStopOnConsistent ==
    \A i \in 1..Len(data) :
        /\ Len(hist[i]) <= llm_attempts
        /\ \A k \in 1..Len(hist[i]) - 1 : ~AgreesWithOdds(hist[i][k], data[i])

\* C2 witness: one row took a single call, whose answer agrees with the
\* odds, and the next row took llm_attempts calls, the last of which is the
\* first to agree
C2_Witness ==
    /\ pc = "combo_end"
    /\ Len(data) = 2
    /\ Len(hist[1]) = 1
    /\ AgreesWithOdds(hist[1][1], data[1])
    /\ Len(hist[2]) = llm_attempts
    /\ AgreesWithOdds(hist[2][llm_attempts], data[2])
    /\ \A k \in 1..llm_attempts - 1 :
            Parsed(hist[2][k]) /\ ~AgreesWithOdds(hist[2][k], data[2])

\* The rows all of whose llm_attempts attempts failed
AllFailedRows ==
    {i \in EndedRows :
        /\ Len(hist[i]) = llm_attempts
        /\ \A k \in 1..llm_attempts : FailedAttempt(hist[i][k])}

\* The key and the sport of the combination whose results have been stored
FinishedKey ==
    CombinationKey(finished[2].llm_provider, finished[2].prediction_type,
                   finished[2].named_teams, finished[2].additional_info)

FinishedSport == finished[1]

\* The matches a Result Set (key -> sport -> matches) holds for the finished
\* combination and sport
EntryIn(pd) ==
    IF FinishedKey \in DOMAIN pd /\ FinishedSport \in DOMAIN pd[FinishedKey]
        THEN pd[FinishedKey][FinishedSport] ELSE <<>>

\* The matches handed to the sink for the finished combination and sport
HandedToSink ==
    UNION {Range(exported[k].sport_data[FinishedSport]) :
            k \in {j \in 1..Len(exported) :
                        /\ exported[j].key = FinishedKey
                        /\ FinishedSport \in DOMAIN exported[j].sport_data}}

IsMatchOf(m, r) == m.home_team = r.home_team /\ m.away_team = r.away_team

\* C5 as stated: when every one of the llm_attempts attempts on a match
\* fails (the call raises or the answer does not parse), the reasoning, the
\* goals, the outlook and the validity of the row keep their initial values,
\* and the match is neither in the Result Set nor among the matches exported.
C5_AllAttemptsFailedLeavesRowOut ==
    \A i \in AllFailedRows :
        /\ RowPrediction(data[i]) = InitialPrediction
        /\ data[i].validity = 0
        /\ finished # <<>> =>
              /\ \A m \in Range(EntryIn(prediction_data)) : ~IsMatchOf(m, data[i])
              /\ \A m \in HandedToSink : ~IsMatchOf(m, data[i])

\* C7 as stated: when at least one answer for a match parsed and none of them agreed
\* with the odds, the Prediction recorded for the match is the one of the
\* last attempt that parsed.
C7_LastParsedResponseRecorded ==
    \A i \in EndedRows :
        LET parsed == {k \in 1..Len(hist[i]) : Parsed(hist[i][k])}
        IN  (/\ parsed # {}
             /\ \A k \in 1..Len(hist[i]) : ~AgreesWithOdds(hist[i][k], data[i]))
                => RowPrediction(data[i]) =
                        ResponsePrediction(hist[i][Max(parsed)])

\* The last answer for row i that evaluated to a literal
LastLiteral(i) ==
    hist[i][Max({k \in 1..Len(hist[i]) : hist[i][k].kind = "literal"})]

\* The rows with a recorded Prediction: the last literal holds all the keys
\* and every write of it was made
RecordedRows ==
    {i \in EndedRows :
        /\ \E k \in 1..Len(hist[i]) : hist[i][k].kind = "literal"
        /\ Parsed(LastLiteral(i))
        /\ RowPrediction(data[i]) = ResponsePrediction(LastLiteral(i))}

\* C8: the validity of a match with a recorded Prediction is true exactly
\* when the reasoning and the outlook are non-empty and both goals are
\* integers; whether the Prediction agrees with the odds plays no part.
C8_ValidityIffTextsAndIntegerGoals ==
    \A i \in EndedRows :
        (/\ \E k \in 1..Len(hist[i]) : hist[i][k].kind = "literal"
         /\ Parsed(LastLiteral(i)))
            => (data[i].validity = 1 <=>
                    /\ LastLiteral(i).reasoning # ""
                    /\ LastLiteral(i).outlook # ""
                    /\ IsInt(LastLiteral(i).home)
                    /\ IsInt(LastLiteral(i).away))

\* C8 witness: a row holds a recorded Prediction that is valid and names
\* as winner the side the odds do not favour
C8_Witness ==
    \E i \in RecordedRows :
        /\ data[i].validity = 1
        /\ Len(hist[i]) = llm_attempts
        /\ ~AgreesWithOdds(LastLiteral(i), data[i])

-----------------------------------------------------------------------------
(* Properties of the Result Set *)

\* The rows of the table whose validity is true, and the place of such a row
\* among them
ValidPlaces == {i \in 1..Len(data) : data[i].validity = 1}

PlaceAmongValid(i) == Cardinality({j \in ValidPlaces : j <= i})

\* Whether a list of matches is the valid rows of the table, in their order
IsValidRowsInOrder(entry) ==
    /\ Len(entry) = Cardinality(ValidPlaces)
    /\ \A i \in ValidPlaces :
        LET m == entry[PlaceAmongValid(i)]
        IN  /\ IsMatchOf(m, data[i])
            /\ <<m.reasoning, m.prediction_home, m.prediction_away, m.outlook>>
                    = RowPrediction(data[i])

\* C9: the entry stored for a combination and a sport holds exactly the
\* matches whose validity is true after the retry engine, in the order of
\* the matches; no row whose validity is false is stored or exported, and a
\* valid Prediction that disagrees with the odds is stored and exported.
C9_StoredEntryIsValidRowsInOrder ==
    finished # <<>> =>
        /\ IsValidRowsInOrder(EntryIn(prediction_data))
        /\ \A k \in 1..Len(exported) :
              (/\ exported[k].key = FinishedKey
               /\ FinishedSport \in DOMAIN exported[k].sport_data)
                  => IsValidRowsInOrder(exported[k].sport_data[FinishedSport])

\* C9 witness: the run is over; of the two matches of the last combination
\* the first holds a Prediction whose validity is false, the second a valid
\* Prediction that disagrees with the odds, and the second alone is in the
\* Result Set and was handed to the sink
C9_Witness ==
    /\ pc = "done"
    /\ finished # <<>>
    /\ Len(data) = 2
    /\ data[1].reasoning # "" /\ data[1].validity = 0
    /\ data[2].validity = 1
    /\ Len(hist[2]) = llm_attempts
    /\ ~AgreesWithOdds(hist[2][llm_attempts], data[2])
    /\ Len(EntryIn(prediction_data)) = 1
    /\ IsMatchOf(EntryIn(prediction_data)[1], data[2])
    /\ \E k \in 1..Len(exported) :
            /\ exported[k].key = FinishedKey
            /\ Len(exported[k].sport_data[FinishedSport]) = 1
            /\ IsMatchOf(exported[k].sport_data[FinishedSport][1], data[2])

-----------------------------------------------------------------------------
(* Properties of the workflow *)

\* The configuration holds every key the workflow reads
HasRequiredKeys == RequiredKeys \subseteq DOMAIN config

\* The run went through the loop over the sports
LoopsOver ==
    \/ pc \in {"export", "summary", "exited"}
    \/ pc = "done" /\ HasRequiredKeys /\ config.sports_list # <<>>
            /\ config.llm_provider_options # <<>>

\* The places of the combinations log that belong to a sport
EnteredFor(sport) == {j \in 1..Len(processed) : processed[j].sport = sport}

\* The sports handed to the sink in some call
SportsHandedToSink ==
    UNION {DOMAIN exported[k].sport_data : k \in 1..Len(exported)}

\* The sports the Result Set holds an entry for
SportsStored ==
    UNION {DOMAIN prediction_data[key] : key \in DOMAIN prediction_data}

\* C11: when the fetch of a sport raises, no combination is entered for the
\* sport (nothing is normalized, no oracle call is made), and every later
\* sport of the list is still fetched, and its combinations entered, in the
\* same run.
C11_FetchFailureSkipsOneSport ==
    /\ \A k \in 1..Len(fetched) :
          ~fetched[k].ok =>
              /\ EnteredFor(fetched[k].sport) = {}
              /\ fetched[k].sport \notin SportsStored
    /\ LoopsOver =>
          /\ Len(fetched) = Len(config.sports_list)
          /\ \A k \in 1..Len(fetched) :
                fetched[k].ok =>
                    Cardinality(EnteredFor(fetched[k].sport))
                        = NrCombinations(config)

\* C11 witness: the run is over; the fetch of the first sport raised, the
\* second sport was fetched after it, its combination stored a match, and
\* the sink was handed the second sport and not the first
C11_Witness ==
    /\ pc = "done"
    /\ Len(fetched) = 2
    /\ ~fetched[1].ok
    /\ fetched[2].ok
    /\ \E j \in EnteredFor(fetched[2].sport) : processed[j].outcome = "completed"
    /\ fetched[2].sport \in SportsStored
    /\ fetched[2].sport \in SportsHandedToSink
    /\ fetched[1].sport \notin SportsHandedToSink

\* A combination of the log that failed: the client was not constructed,
\* the normalization raised, the payload was empty or the storing raised
FailedEntry(e) ==
    ~e.client_ok \/ e.outcome \in {"no_data", "normalize_raised", "store_raised"}

\* C12: a failure in a combination (the construction of the oracle client,
\* the normalization, the retry loop, the storing) does not leave the loop
\* over the combinations: the run never raises once a sport is fetched, and
\* after a failed combination the next one of the product is entered, as are
\* the combinations of the remaining sports.
C12_CombinationFailureIsContained ==
    /\ pc = "raised" => fetched = <<>> /\ processed = <<>>
    /\ \A j \in 1..Len(processed) :
          (FailedEntry(processed[j])
             /\ (j < Len(processed)
                 \/ pc \in {"fetch", "export", "summary", "done", "exited"}))
            => \/ processed[j].comb =
                    Combination(config, NrCombinations(config))
               \/ /\ j < Len(processed)
                  /\ processed[j + 1].sport = processed[j].sport
    /\ LoopsOver =>
          \A k \in 1..Len(fetched) :
              fetched[k].ok =>
                  \A c \in 1..NrCombinations(config) :
                      \E j \in EnteredFor(fetched[k].sport) :
                          processed[j].comb = Combination(config, c)

\* C12 witness: the run is over; a combination whose client was not
\* constructed is followed by a combination that completed and stored a
\* match
C12_Witness ==
    /\ pc = "done"
    /\ \E j \in 1..Len(processed) :
          /\ ~processed[j].client_ok
          /\ \E j2 \in (j + 1)..Len(processed) :
                /\ processed[j2].client_ok
                /\ processed[j2].outcome = "completed"
                /\ processed[j2].sport \in SportsStored

\* Whether the failed-combinations list names a sport and a provider
Reported(sport, llm_provider) ==
    \E k \in 1..Len(failed_combinations) :
        /\ failed_combinations[k][1] = sport
        /\ failed_combinations[k][2] = llm_provider

\* C13 as stated: whenever the construction of the oracle client or the
\* normalization fails for a combination, a (sport, provider, error) triple
\* of the combination is in the failed-combinations list, which the summary
\* at the end of the run prints.
C13_FailedCombinationIsReported ==
    \A j \in 1..Len(processed) :
        (~processed[j].client_ok \/ processed[j].outcome = "normalize_raised")
            => Reported(processed[j].sport, processed[j].comb.llm_provider)

\* The key of a combination
KeyOfCombination(comb) ==
    CombinationKey(comb.llm_provider, comb.prediction_type, comb.named_teams,
                   comb.additional_info)

\* C14: an entry of the Result Set, once stored for a key and a sport, stays
\* as it is for the rest of the run: no step of the workflow (a later
\* combination that fails or succeeds, a later fetch that raises, an export
\* that fails) changes or removes it.
C14_StoredEntryIsKept ==
    [][\A key \in DOMAIN prediction_data :
          /\ key \in DOMAIN prediction_data'
          /\ \A sport \in DOMAIN prediction_data[key] :
                /\ sport \in DOMAIN prediction_data'[key]
                /\ prediction_data'[key][sport] = prediction_data[key][sport]]_vars

\* C14 witness: the run is over; the first sport's entry is in the Result
\* Set, a combination of the second sport failed after it was stored, and a
\* call of the sink raised
C14_Witness ==
    /\ pc = "done"
    /\ Len(processed) = 2
    /\ processed[1].outcome = "completed"
    /\ KeyOfCombination(processed[1].comb) \in DOMAIN prediction_data
    /\ processed[1].sport
            \in DOMAIN prediction_data[KeyOfCombination(processed[1].comb)]
    /\ processed[2].outcome = "store_raised"
    /\ \E k \in 1..Len(exported) : exported[k].result = "raised"

\* C15: with an empty list of sports or of providers the run is aborted: no
\* fetch, no combination, no oracle call and no export happen, and the
\* Result Set is empty when execute_workflow returns.
C15_EmptyListAbortsRun ==
    (HasRequiredKeys /\ (config.sports_list = <<>>
                            \/ config.llm_provider_options = <<>>))
        => /\ pc \in {"idle", "start", "raised", "done"}
           /\ fetched = <<>>
           /\ processed = <<>>
           /\ hist = <<>>
           /\ exported = <<>>
           /\ pc = "done" => prediction_data = <<>>

\* C15 witness: a run with sports and without providers has returned
C15_Witness ==
    /\ pc = "done"
    /\ HasRequiredKeys
    /\ config.sports_list # <<>>
    /\ config.llm_provider_options = <<>>

\* C16: fetch_api_data is called once for each sport of the list, however
\* many combinations there are: the k-th call is for the k-th sport, a
\* fetch that raised is not made again, and every combination of a sport
\* works on the payload that the one call for the sport returned.
C16_OneFetchPerSport ==
    /\ HasRequiredKeys => Len(fetched) <= Len(config.sports_list)
    /\ \A k \in 1..Len(fetched) : fetched[k].sport = config.sports_list[k]
    /\ LoopsOver => Len(fetched) = Len(config.sports_list)
    /\ \A j \in 1..Len(processed) :
          \E k \in 1..Len(fetched) :
              /\ fetched[k].sport = processed[j].sport
              /\ fetched[k].ok
              /\ processed[j].raw = fetched[k].payload

\* C16 witness: the run is over; one fetch was made and two combinations
\* worked on its payload
C16_Witness ==
    /\ pc = "done"
    /\ Len(fetched) = 1
    /\ Len(processed) = 2
    /\ processed[1].raw # <<>>
    /\ processed[1].raw = fetched[1].payload
    /\ processed[2].raw = fetched[1].payload
    /\ processed[1].comb # processed[2].comb

\* C17: once the sports and the combinations are through, export_results is
\* called exactly when the Result Set holds an entry and export_to_kv or
\* export_to_file is on, whether or not combinations failed; no call of the
\* sink is made before, or otherwise.
C17_ExportIffResultsAndChannel ==
    /\ pc \in {"start", "fetch", "combo", "row", "attempt", "row_end",
               "combo_end", "export"} => exported = <<>>
    /\ pc \in {"summary", "done", "exited"} =>
          (exported # <<>> <=>
              /\ prediction_data # <<>>
              /\ (config.export_to_kv \/ config.export_to_file))

\* C17 witness: the run is over, a combination failed and is in the list of
\* the failed ones, and the sink was called
C17_Witness ==
    /\ pc = "done"
    /\ failed_combinations # <<>>
    /\ prediction_data # <<>>
    /\ exported # <<>>

\* The place of an element in a list without repetition
Pos(list, x) == CHOOSE k \in 1..Len(list) : list[k] = x

\* The places, in the lists of the configuration, of a sport and of the four
\* parts of a combination
PlacesOf(sport, comb) ==
    <<Pos(config.sports_list, sport),
      Pos(config.llm_provider_options, comb.llm_provider),
      Pos(config.prediction_type_options, comb.prediction_type),
      Pos(config.named_teams_options, comb.named_teams),
      Pos(config.additional_info_options, comb.additional_info)>>

\* The declared iteration order: the sport first, the additional-info flag
\* last
ComesBefore(a, b) ==
    \E d \in 1..5 : a[d] < b[d] /\ \A e \in 1..(d - 1) : a[e] = b[e]

\* The places of all the (sport, combination) pairs of the configuration
AllPlaces ==
    {<<sp, p, st, n, i>> :
        sp \in 1..Len(config.sports_list),
        p \in 1..Len(config.llm_provider_options),
        st \in 1..Len(config.prediction_type_options),
        n \in 1..Len(config.named_teams_options),
        i \in 1..Len(config.additional_info_options)}

EnteredPlaces(j) == PlacesOf(processed[j].sport, processed[j].comb)

C19_UnreportedMeansProcessed ==
    (pc = "done" /\ LoopsOver) =>
        \A sp \in 1..Len(config.sports_list) :
            \A c \in 1..NrCombinations(config) :
                ~Reported(config.sports_list[sp],
                          Combination(config, c).llm_provider)
                    => \E j \in 1..Len(processed) :
                          /\ processed[j].sport = config.sports_list[sp]
                          /\ processed[j].comb = Combination(config, c)
                          /\ ~FailedEntry(processed[j])

\* C20 as stated: a configuration failure (a key the workflow reads is not
\* in the configuration, or the credentials of an oracle provider are not
\* in the environment) is raised out of execute_workflow at once, before
\* any oracle call, and the step that failed is not made again in the run.
C20_ConfigurationFailureIsFatal ==
    /\ ~HasRequiredKeys =>
          /\ pc \in {"idle", "start", "raised"}
          /\ fetched = <<>> /\ processed = <<>> /\ hist = <<>>
    /\ \A j \in 1..Len(processed) :
          processed[j].comb.llm_provider \notin ProvidersWithKey
              => pc = "raised" /\ j = Len(processed)

\* C20 as amended: a key the workflow reads that is not in the configuration
\* is fatal: the run raises before any fetch and any oracle call.  Missing
\* credentials of an oracle provider are not: the combination makes no
\* oracle call and stores nothing, the run does not raise, and the
\* construction of the client is made again for every later combination
\* with the provider.
C20_MissingKeyIsFatalMissingCredentialsAreNot ==
    /\ ~HasRequiredKeys =>
          /\ pc \in {"idle", "start", "raised"}
          /\ fetched = <<>> /\ processed = <<>> /\ hist = <<>>
    /\ \A j \in 1..Len(processed) :
          processed[j].comb.llm_provider \notin ProvidersWithKey =>
              /\ pc # "raised"
              /\ (j = Len(processed)
                    /\ processed[j].outcome \in {"started", "completed",
                                                 "store_raised"})
                    => \A i \in 1..Len(data) : hist[i] = <<>>
              /\ LET key == KeyOfCombination(processed[j].comb)
                 IN  key \in DOMAIN prediction_data
                        => processed[j].sport \notin DOMAIN prediction_data[key]
    /\ LoopsOver =>
          \A k \in 1..Len(fetched) :
              fetched[k].ok =>
                  \A c \in 1..NrCombinations(config) :
                      \E j \in EnteredFor(fetched[k].sport) :
                          processed[j].comb = Combination(config, c)

\* C20 witness: the run is over; the client of a provider without
\* credentials was constructed for two combinations of one sport, in vain,
\* and a later combination of the sport stored a match
C20_Witness ==
    /\ pc = "done"
    /\ Len(processed) >= 3
    /\ processed[1].comb.llm_provider = <<"nokey">>
    /\ processed[2].comb.llm_provider = <<"nokey">>
    /\ processed[1].sport = processed[2].sport
    /\ ~processed[1].client_ok /\ ~processed[2].client_ok
    /\ processed[3].sport = processed[1].sport
    /\ processed[3].outcome = "completed"
    /\ KeyOfCombination(processed[3].comb) \in DOMAIN prediction_data
    /\ processed[3].sport
            \in DOMAIN prediction_data[KeyOfCombination(processed[3].comb)]

-----------------------------------------------------------------------------
(* Properties of the oracle calls *)

\* C21: attempt k on a match is sent with the temperature of the provider
\* (0.0 when it has none) plus 0.2 * k, for k from 0 to llm_attempts - 1,
\* and the attempts of every match start again at k = 0.
C21_TemperatureRisesWithAttempt ==
    \A j \in 1..Len(call_log) :
        LET c == call_log[j]
            configured == llm_config[c.provider].temperature
            base_temperature ==
                IF configured = NoTemperature THEN 0 ELSE configured
        IN  /\ c.attempt \in 0..(llm_attempts - 1)
            /\ c.temperature = base_temperature + 2 * c.attempt
            /\ (j = 1 \/ call_log[j - 1].row # c.row) => c.attempt = 0
            /\ (j > 1 /\ call_log[j - 1].row = c.row)
                    => c.attempt = call_log[j - 1].attempt + 1

\* C21 witness: with a temperature of 0.7 the first match took two attempts,
\* sent with 0.7 and 0.9, and the first attempt on the second match was sent
\* with 0.7 again
C21_Witness ==
    /\ Len(call_log) >= 3
    /\ call_log[1].row = 1 /\ call_log[1].temperature = BaseTemperature
    /\ call_log[2].row = 1 /\ call_log[2].temperature = BaseTemperature + 2
    /\ call_log[3].row = 2 /\ call_log[3].temperature = BaseTemperature

\* C24 as stated: with a rate limit of R > 0 requests per minute, two calls
\* of the oracle that follow each other in a combination start at least
\* (60 / R) * 1.1 seconds apart, whether the first of them returned or
\* raised, and whether they are for one match or for two.
C24_CallsAreSpacedByMinInterval ==
    \A j \in 1..(Len(call_log) - 1) :
        LET rate_limit == llm_config[call_log[j].provider].api_rate_limit
        IN  rate_limit > 0
                => call_log[j + 1].start - call_log[j].start
                        >= MinInterval(rate_limit)

\* An attempt that ended in a transport error (a timeout of the request is
\* one) or in an answer literal_eval could not parse
RaisedOrUnparseable(resp) == resp.kind \in {"error", "noparse"}

\* C22: when attempt k < llm_attempts - 1 on a match ends in a transport
\* error or an unparseable answer, attempt k + 1 is made on the same match:
\* the failure ends neither the match nor the combination.
C22_FailedAttemptIsFollowedByTheNext ==
    /\ \A i \in 1..Len(data) : \A k \in 1..Len(hist[i]) :
            (k < llm_attempts /\ RaisedOrUnparseable(hist[i][k]))
                => \/ Len(hist[i]) > k
                   \/ row = i /\ pc = "attempt" /\ attempt = k
    /\ (pc = "combo_end" /\ processed[Len(processed)].client_ok)
            => /\ row = Len(data) + 1
               /\ processed[Len(processed)].outcome = "started"
               /\ \A i \in 1..Len(data) :
                    ~OddsInvalid(data[i]) => hist[i] # <<>>

\* C22 witness: the first attempt on a match raised, the second one got an
\* answer that parsed, and the combination went on to its end with the
\* match valid
C22_Witness ==
    /\ pc = "combo_end"
    /\ \E i \in 1..Len(data) :
            /\ Len(hist[i]) = 2
            /\ hist[i][1].kind = "error"
            /\ Parsed(hist[i][2])
            /\ data[i].validity = 1

\* A response that parsed into the literal the oracle is asked for: the four
\* keys, with integer goals
WellTyped(resp) == Parsed(resp) /\ IsInt(resp.home) /\ IsInt(resp.away)

\* C30: when an attempt on a match gets a response that parses (into the
\* four keys with integer goals) and agrees with the odds, it is the last
\* attempt on the match and the Prediction recorded for the match is exactly
\* that response, never an earlier one.
C30_FirstConsistentResponseIsRecorded ==
    \A i \in EndedRows : \A k \in 1..Len(hist[i]) :
        (WellTyped(hist[i][k]) /\ AgreesWithOdds(hist[i][k], data[i]))
            => /\ k = Len(hist[i])
               /\ RowPrediction(data[i]) = ResponsePrediction(hist[i][k])
               /\ data[i].validity =
                    IF validate_prediction(hist[i][k]) THEN 1 ELSE 0

\* C30 witness: the first answer on a match parsed and named the side the
\* odds do not favour, the second one agreed with the odds, and the match
\* holds the second one
C30_Witness ==
    /\ pc = "combo_end"
    /\ \E i \in 1..Len(data) :
            /\ Len(hist[i]) = 2
            /\ WellTyped(hist[i][1])
            /\ ~AgreesWithOdds(hist[i][1], data[i])
            /\ WellTyped(hist[i][2])
            /\ AgreesWithOdds(hist[i][2], data[i])
            /\ RowPrediction(data[i]) = ResponsePrediction(hist[i][2])
            /\ RowPrediction(data[i]) # ResponsePrediction(hist[i][1])

-----------------------------------------------------------------------------
(* Properties of the table and of the Result Set *)

\* The combination under way got a table from process_api_data
HasTable ==
    /\ pc \in {"row", "attempt", "row_end", "combo_end"}
    /\ processed[Len(processed)].outcome = "started"

\* C26: the table process_api_data returns has exactly one row per match of
\* the payload, in the order of the payload; a match whose canonical odds
\* are the sentinel has its row, and the retry engine makes no call for it.
C26_OneRowPerMatchInPayloadOrder ==
    HasTable
        => /\ Len(data) = Len(api_result)
           /\ \A i \in 1..Len(data) :
                /\ data[i].home_team = api_result[i].home_team
                /\ data[i].away_team = api_result[i].away_team
                /\ RowOdds(data[i]) =
                        SelectOdds(BookmakersDict(api_result[i].bookmakers,
                                                  api_result[i].home_team,
                                                  api_result[i].away_team))
                /\ RowOdds(data[i]) = <<0, 0, 0>> => hist[i] = <<>>

\* C26 witness: the payload holds a match without canonical odds before a
\* match with odds; the table holds both rows in that order, and the retry
\* engine went through it with calls for the second row only
C26_Witness ==
    /\ pc = "combo_end"
    /\ processed[Len(processed)].client_ok
    /\ api_result = <<MatchUnquoted, MatchHomeFavourite>>
    /\ Len(data) = 2
    /\ data[1].home_team = "H0" /\ RowOdds(data[1]) = <<0, 0, 0>>
    /\ data[2].home_team = "H1" /\ RowOdds(data[2]) = <<15, 55, 45>>
    /\ hist[1] = <<>> /\ hist[2] # <<>>

\* C27: the result of a combination is stored under its key and sport only
\* when the table holds a valid row: every list of the Result Set holds a
\* match, and a combination without a valid row leaves no entry for its
\* sport.
C27_StoredOnlyWithValidRow ==
    /\ \A key \in DOMAIN prediction_data :
            \A sport \in DOMAIN prediction_data[key] :
                prediction_data[key][sport] # <<>>
    /\ (pc = "combo" /\ finished # <<>>)
            => /\ EntryIn(prediction_data) = valid_matches(data)
               /\ valid_matches(data) = <<>>
                    => \/ FinishedKey \notin DOMAIN prediction_data
                       \/ FinishedSport
                            \notin DOMAIN prediction_data[FinishedKey]

\* C27 witness: a combination with a valid row was stored for the first
\* sport, and the same combination ended without a valid row for the second
\* sport, for which its key holds no entry
C27_Witness ==
    /\ pc = "combo"
    /\ finished # <<>>
    /\ \E i \in 1..Len(data) : hist[i] # <<>>
    /\ valid_matches(data) = <<>>
    /\ FinishedKey \in DOMAIN prediction_data
    /\ FinishedSport \notin DOMAIN prediction_data[FinishedKey]
    /\ \E sport \in DOMAIN prediction_data[FinishedKey] :
            Len(prediction_data[FinishedKey][sport]) >= 1

-----------------------------------------------------------------------------
(* Properties of the export and of the outer handler *)

\* An entry of the Result Set that a combination of this run stored
StoredInThisRun(key, sport) ==
    \E j \in 1..Len(processed) :
        /\ processed[j].outcome = "completed"
        /\ processed[j].sport = sport
        /\ KeyOfCombination(processed[j].comb) = key

\* The run is over: it returned, raised or ended the process
RunIsOver == pc \in {"done", "raised", "exited"}

\* C23 as stated: what a run hands to the sink, and what the Result Set
\* holds when the run is over, are entries save_results stored during that
\* run; no entry an earlier run left is handed to the sink.
C23_ResultSetIsBuiltFresh ==
    /\ \A k \in 1..Len(exported) :
            \A sport \in DOMAIN exported[k].sport_data :
                StoredInThisRun(exported[k].key, sport)
    /\ RunIsOver
            => \A key \in DOMAIN prediction_data :
                    \A sport \in DOMAIN prediction_data[key] :
                        StoredInThisRun(key, sport)

\* An exception escaped to the outer handler, which raised it again or ended
\* the process: the exceptions that escape do so before the first fetch,
\* and the export of a run that went through its loops comes after one
Escaped == pc = "raised" \/ (pc = "exited" /\ fetched = <<>>)

\* C25: when an exception escapes to the outer handler, the handler calls
\* export_results on the Result Set as it is then, provided it holds an
\* entry and an export channel is enabled, and only then is the exception
\* raised again (or the process ended); otherwise it makes no export.
C25_HandlerExportsBeforeRaising ==
    Escaped
        => /\ IF prediction_data # <<>>
                    /\ (config.export_to_kv \/ config.export_to_file)
                 THEN /\ export_result # "not_called"
                      /\ storage_manager = "configured"
                            => /\ exported # <<>>
                               /\ exported[1].key = key_order[1]
                               /\ exported[1].sport_data
                                    = prediction_data[key_order[1]]
                 ELSE export_result = "not_called" /\ exported = <<>>
           /\ pc = "exited" => export_result \in {"false", "raised"}
           /\ pc = "raised" /\ export_result = "true"
                => \A k \in 1..Len(exported) : exported[k].result = "ok"

\* C25 witness: the constructor of the storage manager raised in a run that
\* found an entry in the Result Set; the handler handed it to the sink,
\* which reported success, and the exception was raised again
C25_Witness ==
    /\ pc = "raised"
    /\ prediction_data # <<>>
    /\ export_result = "true"
    /\ Len(exported) = 1
    /\ exported[1].result = "ok"

\* C29 as stated: export_results calls the sink once for every key of the
\* Result Set and returns true exactly when a storage manager is configured
\* and the sink reported success for every key; it returns false otherwise.
C29_ExportReturnsWhetherAllSucceeded ==
    export_result # "not_called"
        => /\ export_result \in {"true", "false"}
           /\ export_result = "true"
                <=> /\ storage_manager = "configured"
                    /\ \A k \in 1..Len(exported) : exported[k].result = "ok"
           /\ storage_manager = "configured"
                => /\ Len(exported) = Len(key_order)
                   /\ \A k \in 1..Len(exported) :
                        exported[k].key = key_order[k]
           /\ storage_manager = "none" => exported = <<>>

-----------------------------------------------------------------------------
(* Termination *)

\* The largest number of matches in a payload of the odds source
MaxMatches == Max({Len(payload) : payload \in odds_source} \cup {0})

\* The calls of the run stay within their bounds: one fetch per sport at
\* most, and llm_attempts oracle calls per sport, combination and match at
\* most
WithinCallBounds ==
    (pc # "idle" /\ HasRequiredKeys)
        => /\ Len(fetched) <= Len(config.sports_list)
           /\ oracle_calls <= Len(config.sports_list) * NrCombinations(config)
                                * MaxMatches * llm_attempts

\* C28: with a finite configuration and finite payloads, and fetches, oracle
\* calls and sink calls that return or raise, execute_workflow comes to an
\* end (it returns, raises or ends the process), and has made at most one
\* fetch per sport and at most |sports| * |combinations| * |matches| *
\* llm_attempts oracle calls.
C28_TerminatesWithinCallBounds == []WithinCallBounds /\ <>RunIsOver

\* C28 witness: the run returned after a fetch for each of the two sports
\* and as many oracle calls as the bound allows
C28_Witness ==
    /\ pc = "done"
    /\ Len(fetched) = 2
    /\ MaxMatches = 2
    /\ oracle_calls = 2 * NrCombinations(config) * 2 * llm_attempts

-----------------------------------------------------------------------------
(* Properties of the rows of a combination *)

\* The Prediction a row holds names a winner the odds do not favour
RecordedInconsistent(r) ==
    ~is_prediction_consistent(r.prediction_home, r.prediction_away,
                              r.odds_home, r.odds_away)

\* C31 as stated: "Using inconsistent prediction" is logged for a match only
\* when the Prediction recorded for it is inconsistent with the odds: all
\* attempts were made, one of them parsed, and none agreed with the odds.
C31_WarningOnlyForInconsistentPrediction ==
    \A i \in warned :
        /\ RecordedInconsistent(data[i])
        /\ Len(hist[i]) = llm_attempts
        /\ \E k \in 1..Len(hist[i]) : Parsed(hist[i][k])
        /\ \A k \in 1..Len(hist[i]) : ~AgreesWithOdds(hist[i][k], data[i])

\* The rows whose processing failed part-way: the loop left a response, and
\* the row does not hold the four fields of it
FailedPartWay ==
    {i \in EndedRows :
        /\ \E k \in 1..Len(hist[i]) : hist[i][k].kind = "literal"
        /\ ResponseTruthy(LastLiteral(i))
        /\ \/ ~Parsed(LastLiteral(i))
           \/ RowPrediction(data[i]) # ResponsePrediction(LastLiteral(i))}

\* C32: a match whose validity is true has non-zero canonical odds, and its
\* reasoning, goals and outlook are those of one oracle response of the
\* current combination; a match whose processing failed part-way does not
\* have validity true.
C32_ValidRowHoldsOneResponse ==
    /\ \A i \in 1..Len(data) :
            data[i].validity = 1
                => /\ data[i].odds_home # 0
                   /\ data[i].odds_away # 0
                   /\ data[i].odds_draw # 0
                   /\ i \in EndedRows
                   /\ \E k \in 1..Len(hist[i]) :
                        /\ WellTyped(hist[i][k])
                        /\ RowPrediction(data[i])
                                = ResponsePrediction(hist[i][k])
    /\ \A i \in FailedPartWay : data[i].validity = 0

\* C32 witness: the first match got a literal without the goals, of which
\* the row took the reasoning alone, and is not valid; the second match is
\* valid and holds the four fields of its answer
C32_Witness ==
    /\ pc = "combo_end"
    /\ Len(data) = 2
    /\ 1 \in FailedPartWay
    /\ data[1].reasoning = "why" /\ data[1].outlook = ""
    /\ data[1].validity = 0
    /\ data[2].validity = 1
    /\ RowPrediction(data[2]) = ResponsePrediction(hist[2][Len(hist[2])])

\* C33: an exception raised while one match is processed in predict_results
\* (a write of a response that lacks a key, for one) skips that match alone:
\* the later matches of the combination are processed, and the combination
\* goes on to its end and is not a failed one.
C33_FailedRowSkipsOneMatch ==
    \A i \in FailedPartWay :
        /\ (HasTable /\ pc = "combo_end")
                => /\ row = Len(data) + 1
                   /\ \A j \in (i + 1)..Len(data) :
                        ~OddsInvalid(data[j]) => hist[j] # <<>>
        /\ (HasTable /\ pc \in {"row", "attempt", "row_end"})
                => row <= Len(data) + 1
        /\ \A k \in 1..Len(failed_combinations) :
                failed_combinations[k][3]
                    \in {"No valid API data", "store_llm_data",
                         "list index out of range"}

\* C33 witness: the write of the first match raised on a literal without
\* goals, the second match was processed and is valid, and the combination
\* was completed and stored the second match
C33_Witness ==
    /\ pc = "combo"
    /\ finished # <<>>
    /\ Len(data) = 2
    /\ 1 \in FailedPartWay
    /\ hist[2] # <<>>
    /\ data[2].validity = 1
    /\ processed[Len(processed)].outcome = "completed"
    /\ failed_combinations = <<>>
    /\ Len(EntryIn(prediction_data)) = 1

-----------------------------------------------------------------------------
(* Properties of the canonical odds *)

\* The match with every outcome a bookmaker prices at 0 taken off that
\* bookmaker's list
WithoutZeroPrices(match) ==
    LET Priced(outcome) == outcome.price # 0
    IN  [match EXCEPT !.bookmakers =
            [k \in 1..Len(match.bookmakers) |->
                [match.bookmakers[k] EXCEPT
                    !.outcomes = SelectSeq(match.bookmakers[k].outcomes, Priced)]]]

\* C34: the canonical odds of every match are (0.0, 0.0, 0.0) or are non-zero
\* in all three fields, so the test that skips a row holds exactly for the
\* rows with the sentinel; and the odds are those the match has when every
\* outcome priced at 0 is absent from its bookmaker's list.
C34_OddsAreSentinelOrAllNonZero ==
    (probe.fn = "process_api_data" /\ probe.done) =>
        \A i \in 1..Len(probe.api_result) :
            LET r == probe.out[i]
                lean == ProcessRow(WithoutZeroPrices(probe.api_result[i]),
                                   FALSE, FALSE)
            IN  /\ \/ RowOdds(r) = <<0, 0, 0>>
                   \/ r.odds_home # 0 /\ r.odds_away # 0 /\ r.odds_draw # 0
                /\ OddsInvalid(r) <=> RowOdds(r) = <<0, 0, 0>>
                /\ RowOdds(r) = RowOdds(lean)

\* C34 witness: the first bookmaker of the priority list prices one outcome
\* at 0 and the other two above it, the second one quotes all three, and the
\* odds are the second one's
C34_Witness ==
    /\ probe.fn = "process_api_data" /\ probe.done
    /\ LET match == probe.api_result[1]
       IN  /\ Len(match.bookmakers) = 2
           /\ match.bookmakers[1].key = "A"
           /\ FirstPrice(match.bookmakers[1].outcomes, match.home_team) > 0
           /\ FirstPrice(match.bookmakers[1].outcomes, match.away_team) = 0
           /\ FirstPrice(match.bookmakers[1].outcomes, Draw) > 0
           /\ match.bookmakers[2].key = "B"
           /\ RowOdds(probe.out[1]) = <<40, 20, 35>>
           /\ ~OddsInvalid(probe.out[1])

\* C34 witness of the sentinel: the only bookmaker prices an outcome at 0,
\* and the row is one the prediction loop skips
C34_WitnessSentinel ==
    /\ probe.fn = "process_api_data" /\ probe.done
    /\ LET match == probe.api_result[1]
       IN  /\ Len(match.bookmakers) = 1
           /\ match.bookmakers[1].key = "A"
           /\ FirstPrice(match.bookmakers[1].outcomes, Draw) = 0
           /\ FirstPrice(match.bookmakers[1].outcomes, match.home_team) > 0
           /\ FirstPrice(match.bookmakers[1].outcomes, match.away_team) > 0
           /\ OddsInvalid(probe.out[1])

-----------------------------------------------------------------------------
(* Properties of a predicted draw *)

\* A response whose goals can be read and are equal
PredictsDraw(resp) ==
    /\ resp.kind = "literal"
    /\ resp.home # MissingGoal /\ resp.away # MissingGoal
    /\ GoalValue(resp.home) = GoalValue(resp.away)

\* The retry loop of row i was entered and is over after fewer than
\* llm_attempts attempts
StoppedEarly(i) ==
    /\ i < row \/ (i = row /\ pc = "row_end")
    /\ hist[i] # <<>>
    /\ Len(hist[i]) < llm_attempts

\* C35: a predicted draw is consistent whatever the odds are, and at equal
\* odds for both sides every prediction with a strict winner is inconsistent;
\* so in a run a draw ends the retry loop of its match, and the retry loop of
\* a match with equal odds for both sides ends early only on a draw.
C35_DrawIsConsistentAndAloneAtEqualOdds ==
    /\ (probe.fn = "is_prediction_consistent" /\ probe.done) =>
            /\ probe.p_home = probe.p_away => probe.out
            /\ (probe.o_home = probe.o_away /\ probe.p_home # probe.p_away)
                    => ~probe.out
    /\ probe.fn = "execute_workflow" =>
            \A i \in 1..Len(data) :
                /\ \A k \in 1..Len(hist[i]) :
                        PredictsDraw(hist[i][k])
                            => /\ k = Len(hist[i])
                               /\ ~(pc = "attempt" /\ row = i)
                /\ (data[i].odds_home = data[i].odds_away /\ StoppedEarly(i))
                        => PredictsDraw(hist[i][Len(hist[i])])

\* C35 witness: on a match with equal odds for both sides the first answer
\* predicted a draw, and the retry loop is over after it
C35_Witness ==
    /\ probe.fn = "execute_workflow"
    /\ pc = "row_end"
    /\ row = 1
    /\ data[1].odds_home = 25 /\ data[1].odds_away = 25
    /\ Len(hist[1]) = 1
    /\ PredictsDraw(hist[1][1])

\* C35 witness of the check on its own: a draw has been judged consistent at
\* odds that favour one side
C35_WitnessJudged ==
    /\ probe.fn = "is_prediction_consistent" /\ probe.done
    /\ probe.p_home = 1 /\ probe.p_away = 1
    /\ probe.o_home = 15 /\ probe.o_away = 55
    /\ probe.out

-----------------------------------------------------------------------------
(* Properties of the tables of one payload *)

\* A row without its rendered odds summary
Unrendered(r) == [r EXCEPT !.odds_summary = <<>>]

-----------------------------------------------------------------------------
(* Properties of a sport with an empty payload *)

\* The places of failed_combinations that hold the sport with the error
FailedWith(sport, error) ==
    {j \in 1..Len(failed_combinations) :
        failed_combinations[j][1] = sport /\ failed_combinations[j][3] = error}

\* The k-th element of a finite set of numbers, from the lowest
RECURSIVE Nth(_, _)
Nth(S, k) == IF k = 1 THEN Min(S) ELSE Nth(S \ {Min(S)}, k - 1)

\* The fetches that returned an empty payload and whose sport is over
EmptySportsOver ==
    {k \in 1..Len(fetched) :
        fetched[k].ok /\ fetched[k].payload = <<>> /\ sport_idx > k}

\* What the log says of a sport with an empty payload once it is over: one
\* entry 'No valid API data' per combination, in the order of the product,
\* no table and no combination that got as far as process_api_data or
\* predict_results
EmptySportIsRecorded ==
    \A k \in EmptySportsOver :
        LET sport == fetched[k].sport
            places == FailedWith(sport, "No valid API data")
        IN  /\ Cardinality(places) = NrCombinations(config)
            /\ \A c \in 1..NrCombinations(config) :
                    failed_combinations[Nth(places, c)][2] =
                        Combination(config, c).llm_provider
            /\ Cardinality(EnteredFor(sport)) = NrCombinations(config)
            /\ \A j \in EnteredFor(sport) : processed[j].outcome = "no_data"
            /\ \A t \in 1..Len(tables) : tables[t].fetch # k

\* A step taken while the sport under way has an empty payload: it returns
\* no table, makes no call of the oracle, and stays in the loop over the
\* combinations or leaves it for the next sport
EmptySportStep ==
    (pc = "combo" /\ api_result = <<>>)
        => /\ tables' = tables
           /\ oracle_calls' = oracle_calls
           /\ call_log' = call_log
           /\ hist' = hist
           /\ pc' \in {"combo", "fetch"}

\* C37: when the fetch of a sport returns an empty payload, every combination
\* of the sport is recorded in failed_combinations with the error 'No valid
\* API data', and for that sport process_api_data is not run, no oracle
\* client is constructed and no call of the oracle is made.
C37_EmptyPayloadFailsEveryCombination ==
    []EmptySportIsRecorded /\ [][EmptySportStep]_vars

\* C37 witness: a sport with two combinations got an empty payload, and both
\* are recorded
C37_Witness ==
    /\ 1 \in EmptySportsOver
    /\ NrCombinations(config) = 2
    /\ Len(failed_combinations) = 2
    /\ failed_combinations[1][3] = "No valid API data"
    /\ failed_combinations[2][3] = "No valid API data"
    /\ oracle_calls = 0

\* C37 witness of two sports: the first got an empty payload and the second
\* one got calls of the oracle
C37_WitnessSecondSport ==
    /\ 1 \in EmptySportsOver
    /\ Len(fetched) = 2
    /\ fetched[2].payload # <<>>
    /\ oracle_calls > 0
    /\ FailedWith(fetched[1].sport, "No valid API data") # {}

-----------------------------------------------------------------------------
(* Properties of the end of a run whose export failed *)

\* The export after the loop over the sports returned False or raised
ExportAfterProcessingFailed ==
    fetched # <<>> /\ export_result \in {"false", "raised"}

\* C38: when the export after processing returns False or raises, then in a
\* cloud environment the process exits with status 1, the failure summary is
\* not logged and export_results is not called a second time; outside a
\* cloud environment the run goes on to the failure summary, after which
\* execute_workflow has returned, also with one call of export_results.
C38_FailedExportExitsInCloudOnly ==
    ExportAfterProcessingFailed
        => /\ ending.exports = 1
           /\ ending.cloud \in {"cloud", "local"}
           /\ ending.cloud = "cloud"
                => pc = "exited" /\ ~ending.summary
           /\ ending.cloud = "local"
                => /\ pc \in {"summary", "done"}
                   /\ pc = "done" <=> ending.summary

\* C38 witness: in a cloud environment export_results raised after a run
\* with a failed combination, and the process exited
C38_Witness ==
    /\ ExportAfterProcessingFailed
    /\ export_result = "raised"
    /\ ending.cloud = "cloud"
    /\ failed_combinations # <<>>
    /\ pc = "exited"

\* C38 witness outside a cloud environment: export_results returned False,
\* the summary was logged and execute_workflow returned
C38_WitnessLocal ==
    /\ ExportAfterProcessingFailed
    /\ export_result = "false"
    /\ ending.cloud = "local"
    /\ ending.summary
    /\ pc = "done"

====
